---- MODULE Spec2Model ----
(***************************************************************************)
(* A model of the transwarp routing core: the MockRouter (route table,    *)
(* groups, middleware stacks, ServeHTTP), the NativeAdapter's prefix and  *)
(* pattern handling, the Chain helper, and the Fiber/Gin request bridges. *)
(*                                                                         *)
(* Strings are sequences of one-character strings, so that concatenation,  *)
(* prefix tests and splitting are computed as the Go code computes them.   *)
(* A Go slice is a header [arr, len] over a backing array kept in `heap`,  *)
(* so that sharing a slice and copying it are different things.            *)
(***************************************************************************)
EXTENDS Integers, Sequences, FiniteSets, TLC

\* ------------------------------------------------------------------ bounds
\* Each specification below runs the same program under its own bounds on the
\* number of calls the setup code makes.
\* SpecDispatch: many routes, little middleware.
DispatchGroups == 2     \* routers alive at once, the root included
DispatchUses == 1       \* calls of Use
DispatchRoutes == 3     \* registration calls
\* SpecChain: long middleware chains, one route.
ChainGroups == 2
ChainUses == 3
ChainRoutes == 1
ChainArgs == 2          \* middlewares handed to Chain for one route
\* SpecGroups: deep and wide group trees.
TreeGroups == 3
TreeUses == 5
TreeRoutes == 1

InheritGroups == 3
InheritUses == 2
InheritRoutes == 2

PathGroups == 3
PathRoutes == 2

ConcRequests == 2       \* requests in flight on the engine at once
ConcRoutes == 1

RecycleRoutes == 1

GinUses == 3
GinRoutes == 2

ForwardUses == 2
ForwardRoutes == 1
ForwardRequests == 1

TableGroups == 2
TableUses == 1
TableRoutes == 2

FactoryCtors == 2

HandleGroups == 2
HandleUses == 1
HandleRoutes == 1

ChiRoutes == 2

RaceGoroutines == 2
RaceGroups == 2
RaceUses == 1

FaultUses == 2
FaultRoutes == 1
FaultArgs == 1

\* ----------------------------------------------------------------- strings
HasPrefix(s, p) ==
    /\ Len(p) <= Len(s)
    /\ SubSeq(s, 1, Len(p)) = p

HasSuffix(s, p) ==
    /\ Len(p) <= Len(s)
    /\ SubSeq(s, Len(s) - Len(p) + 1, Len(s)) = p

TrimSuffix(s, p) ==
    IF HasSuffix(s, p) THEN SubSeq(s, 1, Len(s) - Len(p)) ELSE s

TrimPrefix(s, p) ==
    IF HasPrefix(s, p) THEN SubSeq(s, Len(p) + 1, Len(s)) ELSE s

Contains(s, c) == \E i \in 1..Len(s) : s[i] = c

\* The index of the first c in s, or 0.
IndexOf(s, c) ==
    IF Contains(s, c) THEN CHOOSE i \in 1..Len(s) :
                               /\ s[i] = c
                               /\ \A j \in 1..(i - 1) : s[j] # c
    ELSE 0

\* strings.Split(s, c)[0]: the text before the first c (all of s without one).
SplitFirst(s, c) ==
    IF Contains(s, c) THEN SubSeq(s, 1, IndexOf(s, c) - 1) ELSE s

\* strings.SplitN(s, c, 2): at most two parts, cut at the first c.
SplitN2(s, c) ==
    IF Contains(s, c)
    THEN <<SubSeq(s, 1, IndexOf(s, c) - 1), SubSeq(s, IndexOf(s, c) + 1, Len(s))>>
    ELSE <<s>>

\* strings.Split(s, "/"): the segments of s, empty ones included.
RECURSIVE Segments(_)
Segments(s) ==
    IF ~Contains(s, "/") THEN <<s>>
    ELSE <<SubSeq(s, 1, IndexOf(s, "/") - 1)>>
         \o Segments(SubSeq(s, IndexOf(s, "/") + 1, Len(s)))

\* ------------------------------------------------------------- the alphabet
\* mockMethods: the methods HandleFunc registers a handler under.
mockMethods == <<"GET", "POST", "PUT", "DELETE", "PATCH", "HEAD", "OPTIONS">>
\* Parameter names a handler asks Param for.
ParamNames == { <<"x">>, <<"y">> }

VARIABLES
    driver,     \* the adapter in use: "mock", "native", "chi", "fiber", "gin", "echo"
    heap,       \* backing arrays of the middleware slices: array id -> cells
    groups,     \* the routers: groups[g] = [prefix, middlewares (slice header)]
    Handlers,   \* MockRouter.Handlers: "METHOD /path" -> composed handler
    mux,        \* the routes handed to the engine (ServeMux, Fiber, Gin), in order
    groupLog,   \* history: the Group call that created each router
    regLog,     \* history: the registration calls, in order
    served,     \* the outcome of the latest ServeHTTP call (or Param call)
    fctx,       \* the engine's pooled request contexts (fiber.Ctx, gin.Context)
    reqs,       \* the requests in flight on the engine, one goroutine each
    params,     \* the params maps FiberAdapter's route closure has made
    registry,   \* the package's registry: Driver -> constructor
    built,      \* the outcome of the latest New call
    goroutines  \* the calls in progress on one MockRouter, one goroutine each

vars == <<driver, heap, groups, Handlers, mux, groupLog, regLog, served,
          fctx, reqs, params, registry, built, goroutines>>

engineVars == <<fctx, reqs, params>>

factoryVars == <<registry, built>>

\* ------------------------------------------------------------------ slices
Nil == <<>>

\* The elements a slice header shows: the first len cells of its array.
Elems(h, s) == SubSeq(h[s.arr], 1, s.len)

Cap(h, s) == Len(h[s.arr])

\* The id of the next array allocated on behalf of router g.
NewArr(h, g) == <<g, Cardinality({a \in DOMAIN h : a[1] = g})>>

\* The capacity Go's append gives a grown slice of small capacity.
GrowCap(cap) == IF cap = 0 THEN 1 ELSE 2 * cap

Pad(n) == [i \in 1..n |-> Nil]

\* append(s, x) on behalf of router g: in place when capacity is left,
\* into a fresh array otherwise.  The result is the new heap and header.
GoAppend(h, s, x, g) ==
    IF s.len < Cap(h, s)
    THEN [heap |-> [h EXCEPT ![s.arr][s.len + 1] = x],
          slice |-> [arr |-> s.arr, len |-> s.len + 1]]
    ELSE [heap |-> h @@ (NewArr(h, g) :>
                          (Elems(h, s) \o <<x>> \o Pad(GrowCap(Cap(h, s)) - s.len - 1))),
          slice |-> [arr |-> NewArr(h, g), len |-> s.len + 1]]

\* The copy left out: newMws := make([]Middleware, 0)
CopyMwsEmpty(h, s, g) ==
    [heap |-> h @@ (NewArr(h, g) :> <<>>),
     slice |-> [arr |-> NewArr(h, g), len |-> 0]]

\* The slice handed on as it is: newMws := m.middlewares
CopyMwsAlias(h, s, g) == [heap |-> h, slice |-> s]

\* newMws := make([]Middleware, len(s)); copy(newMws, s)
CopyMws(h, s, g) ==
    [heap |-> h @@ (NewArr(h, g) :> Elems(h, s)),
     slice |-> [arr |-> NewArr(h, g), len |-> s.len]]

\* The middleware value passed by the k-th Use call on router g.
UseMw(g, k) == <<g, k>>

\* A router made by Group reading its parent's list when asked, its own
\* additions after it, instead of holding a copy.
StackThroughParent(g) ==
    IF g = 1
    THEN Elems(heap, groups[g].middlewares)
    ELSE Elems(heap, groups[groupLog[g].parent].middlewares)
         \o [k \in 1..groupLog[g].uses |-> UseMw(g, k)]

\* The middleware stack of router g as the program reads it.
Stack(g) == Elems(heap, groups[g].middlewares)

\* ---------------------------------------------------- middleware and chains
\* The i-th middleware among the arguments of Chain for handler hid.
ChainMw(hid, i) == <<0 - hid, i>>

\* The application handler passed by the hid-th registration call.
Terminal(hid) == <<"h", <<hid>>>>
\* mw(next): the handler a middleware returns around its continuation.
Wrap(mw, next) == <<"mw", mw, next>>

\* The loop run forwards: for i := 0; i < len(mws); i++ { final = mws[i](final) }
RECURSIVE WrapFromForward(_, _, _)
WrapFromForward(mws, i, final) ==
    IF i = 0 THEN final
    ELSE WrapFromForward(mws, i - 1, Wrap(mws[Len(mws) - i + 1], final))

\* The loop stopping one short: for i := len(mws) - 1; i > 0; i--
RECURSIVE WrapFromSkipsFirst(_, _, _)
WrapFromSkipsFirst(mws, i, final) ==
    IF i <= 1 THEN final ELSE WrapFromSkipsFirst(mws, i - 1, Wrap(mws[i], final))

\* for i := len(mws) - 1; i >= 0; i-- { final = mws[i](final) }
RECURSIVE WrapFrom(_, _, _)
WrapFrom(mws, i, final) ==
    IF i = 0 THEN final ELSE WrapFrom(mws, i - 1, Wrap(mws[i], final))

\* transwarp.Chain(h, mws...)
Chain(h, mws) == IF Len(mws) = 0 THEN h ELSE WrapFrom(mws, Len(mws), h)

\* The composition loop of MockRouter.register and NativeAdapter.registerToMux.
Compose(mws, h) == WrapFrom(mws, Len(mws), h)

\* The middlewares of a composed handler, outermost first, and its terminal.
RECURSIVE Layers(_)
Layers(H) == IF H[1] = "h" THEN <<>> ELSE <<H[2]>> \o Layers(H[3])

RECURSIVE TerminalOf(_)
TerminalOf(H) == IF H[1] = "h" THEN H[2] ELSE TerminalOf(H[3])

\* ----------------------------------------------------------- request context
\* context.Context as the values stored under its keys.
EmptyCtx == <<>>

MockParamsKey == "mock_params"

\* MockRouter.Param answering, for a name the map lacks, with the value of
\* another name.
MockParamAny(ctx, key) ==
    IF MockParamsKey \in DOMAIN ctx /\ DOMAIN ctx[MockParamsKey] # {}
    THEN ctx[MockParamsKey][CHOOSE k \in DOMAIN ctx[MockParamsKey] : TRUE]
    ELSE <<>>

\* MockRouter.Param: the value under key in the params map found in the
\* request context, "" without such a map or such a key.
MockParam(ctx, key) ==
    IF MockParamsKey \in DOMAIN ctx
    THEN (IF key \in DOMAIN ctx[MockParamsKey] THEN ctx[MockParamsKey][key] ELSE <<>>)
    ELSE <<>>

\* fiberCtxKey(name): the private context key of one parameter.
fiberCtxKey(name) == <<"fiberCtxKey", name>>

\* The context write that forgets the earlier ones:
\* ctx = context.WithValue(r.Context(), fiberCtxKey(k), v)
RECURSIVE FiberInjectLast(_, _, _)
FiberInjectLast(ctx, order, m) ==
    IF order = <<>> THEN ctx
    ELSE FiberInjectLast((fiberCtxKey(Head(order)) :> m[Head(order)]) @@ EmptyCtx,
                         Tail(order), m)

\* for k, v := range params { ctx = context.WithValue(ctx, fiberCtxKey(k), v) }
\* with the map's keys visited in this order.
RECURSIVE FiberInject(_, _, _)
FiberInject(ctx, order, m) ==
    IF order = <<>> THEN ctx
    ELSE FiberInject((fiberCtxKey(Head(order)) :> m[Head(order)]) @@ ctx,
                     Tail(order), m)

\* FiberAdapter.Param: the string under fiberCtxKey(key), "" without one.
FiberParam(ctx, key) ==
    IF fiberCtxKey(key) \in DOMAIN ctx THEN ctx[fiberCtxKey(key)] ELSE <<>>

ginParamsKey == "gin_params"

\* gin.Context.Param(key) on the engine context c: "" for a name the matched
\* route does not have.
EngineParam(c, key) ==
    IF key \in DOMAIN fctx[c].values THEN fctx[c].values[key] ELSE <<>>

\* GinAdapter.Param: c.Param(key) on the *gin.Context found in the request
\* context, "" without one.
GinParam(ctx, key) ==
    IF ginParamsKey \in DOMAIN ctx THEN EngineParam(ctx[ginParamsKey], key) ELSE <<>>

paramsKey == "params"

\* EchoAdapter.Param: c.Param(key) on the *echo.Context found in the request
\* context, "" without one.
EchoParam(ctx, key) ==
    IF paramsKey \in DOMAIN ctx THEN EngineParam(ctx[paramsKey], key) ELSE <<>>

\* router.Param(r, key) of the adapter in use.
Param(ctx, key) ==
    CASE driver = "mock" -> MockParam(ctx, key)
      [] driver = "fiber" -> FiberParam(ctx, key)
      [] driver = "gin" -> GinParam(ctx, key)
      [] driver = "echo" -> EchoParam(ctx, key)

\* ------------------------------------------------------------ chain execution
\* Running handler H for a request whose context is ctx.  A middleware in deny
\* writes its own response and returns without calling next.ServeHTTP; any
\* other middleware calls next.ServeHTTP once and returns.  The terminal handler
\* reads every parameter through Param and writes the response.
\* The result: the events in order, who wrote the response, the parameters seen.
RECURSIVE Exec(_, _, _)
Exec(H, deny, ctx) ==
    IF H[1] = "h"
    THEN [trace |-> << <<"h", H[2]>> >>,
          resp |-> <<"h", H[2]>>,
          seen |-> [n \in ParamNames |-> Param(ctx, n)]]
    ELSE IF H[2] \in deny
    THEN [trace |-> << <<"in", H[2]>>, <<"deny", H[2]>> >>,
          resp |-> <<"mw", H[2]>>,
          seen |-> Nil]
    ELSE LET r == Exec(H[3], deny, ctx)
         IN  [trace |-> << <<"in", H[2]>> >> \o r.trace \o << <<"out", H[2]>> >>,
              resp |-> r.resp,
              seen |-> r.seen]

\* ------------------------------------------------------- NativeAdapter helpers
\* The characters [a-zA-Z0-9_] of the model's alphabet.
Ident == { "a", "b", "c", "x", "y" }

\* The length of the run of [a-zA-Z0-9_] characters of s from position i on.
RECURSIVE IdentRun(_, _)
IdentRun(s, i) ==
    IF i <= Len(s) /\ s[i] \in Ident THEN 1 + IdentRun(s, i + 1) ELSE 0

\* The length of the run of [^/] characters of s from position i on.
RECURSIVE NonSlashRun(_, _)
NonSlashRun(s, i) ==
    IF i <= Len(s) /\ s[i] # "/" THEN 1 + NonSlashRun(s, i + 1) ELSE 0

\* paramRegex.ReplaceAllString(p, "{$1}") with paramRegex = `:([a-zA-Z0-9_]+)`
RECURSIVE ReplaceParams(_, _)
ReplaceParams(s, i) ==
    IF i > Len(s) THEN <<>>
    ELSE IF s[i] = ":" /\ IdentRun(s, i + 1) > 0
    THEN <<"{">> \o SubSeq(s, i + 1, i + IdentRun(s, i + 1)) \o <<"}">>
         \o ReplaceParams(s, i + 1 + IdentRun(s, i + 1))
    ELSE <<s[i]>> \o ReplaceParams(s, i + 1)

\* suffixCleaner.ReplaceAllString(s, "}") with suffixCleaner = `\}[^/]+`
RECURSIVE CleanSuffix(_, _)
CleanSuffix(s, i) ==
    IF i > Len(s) THEN <<>>
    ELSE IF s[i] = "}" /\ NonSlashRun(s, i + 1) > 0
    THEN <<"}">> \o CleanSuffix(s, i + 1 + NonSlashRun(s, i + 1))
    ELSE <<s[i]>> \o CleanSuffix(s, i + 1)

\* NativeAdapter.transformPattern
transformPattern(p) ==
    LET converted == ReplaceParams(p, 1)
    IN  IF Contains(converted, "}") THEN CleanSuffix(converted, 1) ELSE converted

\* NativeAdapter.joinPath
joinPath(prefix, path) ==
    IF prefix = <<>> THEN path
    ELSE IF path = <<>> \/ path = <<"/">> THEN prefix
    ELSE LET cleanPrefix == TrimSuffix(prefix, <<"/">>)
             cleanPath == IF ~HasPrefix(path, <<"/">>) THEN <<"/">> \o path ELSE path
         IN  cleanPrefix \o cleanPath

\* ------------------------------------------------------------- registration
\* The parent's prefix forgotten: prefix: path
GroupPrefixOwn(prefix, path) == path

\* The prefix of the router Group(path) returns.
GroupPrefix(prefix, path) ==
    IF driver = "mock" THEN prefix \o path ELSE joinPath(prefix, path)

\* fullPath of a registration on a router with this prefix.
FullPath(prefix, pattern) ==
    IF driver = "mock" THEN prefix \o pattern
    ELSE joinPath(prefix, transformPattern(pattern))

\* key := method + " " + fullPath
Key(method, path) == <<method, " ">> \o path

\* A table that takes no entry.
MockStoreRefused(m, key, final) == m

\* A table that keeps the entry a key already has.
MockStoreKeepFirst(m, key, final) == m @@ (key :> final)

\* MockRouter.register, on the map m: the composed handler is stored under key,
\* in the place of whatever the key held.
MockStore(m, key, final) == (key :> final) @@ m

\* A HandleFunc that registers under the first method only.
StoreFirstOnly(m, i, path, final) ==
    IF i > 1 THEN m ELSE MockStore(m, Key(mockMethods[i], path), final)

\* Registering handler final under pattern for every method of mockMethods.
RECURSIVE StoreAll(_, _, _, _)
StoreAll(m, i, path, final) ==
    IF i > Len(mockMethods) THEN m
    ELSE StoreAll(MockStore(m, Key(mockMethods[i], path), final), i + 1, path, final)

\* ------------------------------------------------------------------ the setup
NoServe == [method |-> "", path |-> <<>>, deny |-> {}, fault |-> {},
            hmethod |-> "",
            key |-> Nil, hid |-> 0,
            status |-> "none", trace |-> <<>>, resp |-> Nil, seen |-> Nil]

\* No New call yet.
NoBuild == [status |-> "none", driver |-> "", router |-> Nil]

\* NewMockRouter() / nativeadapter.New(): an empty table, an empty prefix and an
\* empty middleware slice.
Init ==
    /\ driver \in {"mock", "native"}
    /\ heap = (<<1, 0>> :> <<>>)
    /\ groups = <<[prefix |-> <<>>, middlewares |-> [arr |-> <<1, 0>>, len |-> 0]]>>
    /\ Handlers = <<>>
    /\ mux = <<>>
    /\ groupLog = <<[parent |-> 0, path |-> <<>>, inherited |-> <<>>, uses |-> 0]>>
    /\ regLog = <<>>
    /\ served = NoServe
    /\ fctx = <<>>
    /\ reqs = <<>>
    /\ params = <<>>
    /\ registry = <<>>
    /\ built = NoBuild
    /\ goroutines = <<>>

\* NewMockRouter() alone.
InitMock ==
    /\ Init
    /\ driver = "mock"

\* For the call log: a request has been dispatched before this call.
Serving ==
    \/ served.status # "none"
    \/ \E i \in DOMAIN regLog : regLog[i].serving

UsesSoFar == LET RECURSIVE Sum(_)
                 Sum(i) == IF i = 0 THEN 0 ELSE groupLog[i].uses + Sum(i - 1)
             IN  Sum(Len(groupLog))

\* (m *MockRouter) Group(path) / (a *NativeAdapter) Group(prefix), called on
\* router g: a new router with the joined prefix and a copy of g's middlewares.
Group(g, path, maxGroups) ==
    /\ Len(groups) < maxGroups
    /\ LET c == Len(groups) + 1
           r == CopyMws(heap, groups[g].middlewares, c)
       IN  /\ heap' = r.heap
           /\ groups' = Append(groups, [prefix |-> GroupPrefix(groups[g].prefix, path),
                                        middlewares |-> r.slice])
           /\ groupLog' = Append(groupLog, [parent |-> g, path |-> path,
                                            inherited |-> Stack(g), uses |-> 0])
    /\ served' = NoServe
    /\ UNCHANGED <<goroutines, factoryVars, driver, Handlers, mux, regLog, engineVars>>

\* (m *MockRouter) Use(mw) / (a *NativeAdapter) Use(mw), called on router g.
Use(g, maxUses) ==
    /\ UsesSoFar < maxUses
    /\ LET r == GoAppend(heap, groups[g].middlewares,
                         UseMw(g, groupLog[g].uses + 1), g)
       IN  /\ heap' = r.heap
           /\ groups' = [groups EXCEPT ![g].middlewares = r.slice]
    /\ groupLog' = [groupLog EXCEPT ![g].uses = @ + 1]
    /\ served' = NoServe
    /\ UNCHANGED <<goroutines, factoryVars, driver, Handlers, mux, regLog, engineVars>>

\* The handler value the application passes to a registration call: its own
\* handler, wrapped by Chain in n middlewares.
RouteHandler(hid, n) == Chain(Terminal(hid), [i \in 1..n |-> ChainMw(hid, i)])

\* GET / POST (path, h) on router g: MockRouter.register, NativeAdapter.register.
Register(g, method, pattern, n, maxRoutes) ==
    /\ Len(regLog) < maxRoutes
    /\ LET hid == Len(regLog) + 1
           fullPath == FullPath(groups[g].prefix, pattern)
           key == Key(method, fullPath)
           final == Compose(Stack(g), RouteHandler(hid, n))
       IN  /\ IF driver = "mock"
              THEN /\ Handlers' = MockStore(Handlers, key, final)
                   /\ mux' = mux
              ELSE /\ mux' = Append(mux, [pattern |-> key, handler |-> final])
                   /\ Handlers' = Handlers
           /\ regLog' = Append(regLog, [group |-> g, method |-> method,
                                        pattern |-> pattern, hid |-> hid,
                                        path |-> fullPath, stack |-> Stack(g),
                                        n |-> n, serving |-> Serving])
    /\ served' = NoServe
    /\ UNCHANGED <<goroutines, factoryVars, driver, heap, groups, groupLog, engineVars>>

\* HandleFunc(pattern, h) on router g: the Mock registers h under every method
\* of mockMethods, the NativeAdapter under the pattern without a method.
HandleFunc(g, pattern, maxRoutes) ==
    /\ Len(regLog) < maxRoutes
    /\ LET hid == Len(regLog) + 1
           fullPath == FullPath(groups[g].prefix, pattern)
           final == Compose(Stack(g), Terminal(hid))
       IN  /\ IF driver = "mock"
              THEN /\ Handlers' = StoreAll(Handlers, 1, fullPath, final)
                   /\ mux' = mux
              ELSE /\ mux' = Append(mux, [pattern |-> fullPath, handler |-> final])
                   /\ Handlers' = Handlers
           /\ regLog' = Append(regLog, [group |-> g, method |-> "*",
                                        pattern |-> pattern, hid |-> hid,
                                        path |-> fullPath, stack |-> Stack(g),
                                        n |-> 0, serving |-> Serving])
    /\ served' = NoServe
    /\ UNCHANGED <<goroutines, factoryVars, driver, heap, groups, groupLog, engineVars>>

\* ------------------------------------------------------------------ dispatch
\* The fallback test without the comparison of methods.
FallbackMatchAnyMethod(routeKey, method, path) ==
    LET parts == SplitN2(routeKey, " ")
    IN  /\ Len(parts) = 2
        /\ Contains(parts[2], ":")
        /\ HasPrefix(path, SplitFirst(parts[2], ":"))

\* The test of the fallback loop of MockRouter.ServeHTTP on one map entry: the
\* key splits into method and pattern, the method is the request's, the
\* pattern holds a ":" and the text before its first ":" starts the path.
FallbackMatch(routeKey, method, path) ==
    LET parts == SplitN2(routeKey, " ")
    IN  /\ Len(parts) = 2
        /\ parts[1] = <<method>>
        /\ Contains(parts[2], ":")
        /\ HasPrefix(path, SplitFirst(parts[2], ":"))

\* The map entries MockRouter.ServeHTTP may hand the request to: the entry of
\* the exact key when there is one; otherwise the first entry, in the order the
\* map happens to be iterated, that passes the fallback test.
Candidates(m, method, path) ==
    IF Key(method, path) \in DOMAIN m THEN {Key(method, path)}
    ELSE {k \in DOMAIN m : FallbackMatch(k, method, path)}

\* The status of a request no map entry was found for, were the table asked
\* whether another method knows the path.
NotFoundOrNotAllowed(m, method, path) ==
    IF \E j \in DOMAIN mockMethods :
           mockMethods[j] # method /\ Candidates(m, mockMethods[j], path) # {}
    THEN "405" ELSE "404"

\* http.NotFound(w, r): the status of a request no map entry was found for,
\* whatever the table holds under other methods.
NotFound(m, method, path) == "404"

\* h(w, r): the method of the request the handler stored under routeKey is
\* called with; ServeHTTP hands on the request it received.
HandedMethod(method, routeKey) == method

\* A handler wrapped, when it is looked up, in the middlewares its group has
\* by then.
StoredRewrapped(m, k) ==
    LET hid == TerminalOf(m[k])[1]
    IN  Compose(Stack(regLog[hid].group), RouteHandler(hid, regLog[hid].n))

\* h := m.Handlers[key]: the function register stored, wrapped in the
\* middlewares the group had at that moment.
Stored(m, k) == m[k]

\* A table that remembers, under the request's own key, the entry the request
\* was handed to.
ServedTableCached(m, key, k) == (key :> m[k]) @@ m

\* The table after a request of key `key` was handed to entry k: ServeHTTP
\* reads m.Handlers and writes nothing.
ServedTable(m, key, k) == m

\* The request context the chosen handler is called with: ServeHTTP passes the
\* request on as it received it.
ServeCtx(ctx, routeKey, path) == ctx

\* The middlewares a registration call put around its handler, as the call
\* log has them: the router's stack at that moment, then the Chain arguments.
Expected(hid) ==
    regLog[hid].stack \o [i \in 1..regLog[hid].n |-> ChainMw(hid, i)]

Range(seq) == {seq[i] : i \in 1..Len(seq)}

\* What a request can make of the middlewares mws: all let it through, or one
\* of them is the first to refuse it (what those inside it would have done is
\* then of no consequence).
Refusals(mws) == {{}} \cup {{m} : m \in Range(mws)}

\* (m *MockRouter) ServeHTTP(w, r) for a request of this method and path.  The
\* request decides which middleware, if any, of those the chosen route was
\* registered with is the first to refuse it.
ServeHTTP(method, path) ==
    /\ driver = "mock"
    /\ LET cand == Candidates(Handlers, method, path)
       IN  IF cand = {}
           THEN /\ served' = [method |-> method, path |-> path, deny |-> {},
                              fault |-> {}, hmethod |-> "",
                              key |-> Nil, hid |-> 0,
                              status |-> NotFound(Handlers, method, path),
                              trace |-> <<>>,
                              resp |-> <<NotFound(Handlers, method, path), <<>>>>,
                              seen |-> Nil]
                /\ Handlers' = Handlers
           ELSE \E k \in cand :
                \E deny \in Refusals(Expected(TerminalOf(Handlers[k])[1])) :
                    LET r == Exec(Stored(Handlers, k), deny, ServeCtx(EmptyCtx, k, path))
                    IN  /\ served' = [method |-> method, path |-> path,
                                      deny |-> deny, fault |-> {},
                                      hmethod |-> HandedMethod(method, k),
                                      key |-> k,
                                      hid |-> TerminalOf(Handlers[k])[1],
                                      status |-> "served", trace |-> r.trace,
                                      resp |-> r.resp, seen |-> r.seen]
                        /\ Handlers' = ServedTable(Handlers, Key(method, path), k)
    /\ UNCHANGED <<goroutines, factoryVars, driver, heap, groups, mux, groupLog, regLog, engineVars>>

\* ------------------------------------------------------------ specifications
P_a == <<"/", "a">>
P_a_ == <<"/", "a", "/">>
P_b == <<"/", "b">>
P_x == <<"/", ":", "x">>
P_nb == <<"b">>
P_ab == <<"/", "a", "/", "b">>
P_aa == <<"/", "a", "/", "a">>
P_aab == <<"/", "a", "/", "a", "/", "b">>

\* The Mock under many routes: static and parameterised patterns registered on
\* the root and on a group, and requests for the paths they collide on.
DispatchNext ==
    \/ \E g \in DOMAIN groups : Group(g, P_a, DispatchGroups)
    \/ \E g \in DOMAIN groups : Use(g, DispatchUses)
    \/ \E g \in DOMAIN groups : \E pattern \in {P_b, P_x} :
           Register(g, "GET", pattern, 0, DispatchRoutes)
    \/ \E g \in DOMAIN groups : HandleFunc(g, P_b, DispatchRoutes)
    \/ \E path \in {P_ab, P_aa, P_b} : ServeHTTP("GET", path)

SpecDispatch == InitMock /\ [][DispatchNext]_vars

\* The Mock's table under repeated registrations and requests of several
\* methods: static and parameterised patterns, registered by method and by
\* HandleFunc, on the root and on a group.
TableNext ==
    \/ Group(1, P_a, TableGroups)
    \/ Use(1, TableUses)
    \/ \E g \in DOMAIN groups : \E pattern \in {P_b, P_x} :
           Register(g, "GET", pattern, 0, TableRoutes)
    \/ HandleFunc(1, P_b, TableRoutes)
    \/ \E method \in {"GET", "POST"} : \E path \in {P_b, P_aa} :
           ServeHTTP(method, path)

SpecTable == InitMock /\ [][TableNext]_vars

\* The Mock under HandleFunc: a handler registered for all methods on the root
\* or on a group, with middleware, and requests of each method.
RequestMethods == {"GET", "POST", "PUT", "DELETE", "PATCH"}

HandleNext ==
    \/ Group(1, P_a, HandleGroups)
    \/ \E g \in DOMAIN groups : Use(g, HandleUses)
    \/ \E g \in DOMAIN groups : HandleFunc(g, P_b, HandleRoutes)
    \/ \E method \in RequestMethods : \E path \in {P_b, P_ab} :
           ServeHTTP(method, path)

SpecHandle == InitMock /\ [][HandleNext]_vars

\* The Mock under long chains: middleware added by Use on a router and its
\* group, and handed to Chain, around one route.
ChainNext ==
    \/ \E g \in DOMAIN groups : Group(g, P_a, ChainGroups)
    \/ \E g \in DOMAIN groups : Use(g, ChainUses)
    \/ \E g \in DOMAIN groups : \E n \in {0, ChainArgs} :
           Register(g, "GET", P_b, n, ChainRoutes)
    \/ \E path \in {P_ab, P_b} : ServeHTTP("GET", path)

SpecChain == InitMock /\ [][ChainNext]_vars

\* Either adapter under deep and wide group trees whose routers each add
\* middleware of their own.
StacksNext ==
    \/ \E g \in DOMAIN groups : Group(g, P_a, TreeGroups)
    \/ \E g \in DOMAIN groups : Use(g, TreeUses)
    \/ \E g \in DOMAIN groups : Register(g, "GET", P_b, 0, TreeRoutes)

SpecStacks == Init /\ [][StacksNext]_vars

\* Either adapter under nested groups, with prefixes and patterns that carry,
\* lack or double the separating slash.
PathsNext ==
    \/ \E g \in DOMAIN groups : \E path \in {P_a, P_a_} : Group(g, path, PathGroups)
    \/ \E g \in DOMAIN groups : \E pattern \in {P_b, P_x, P_nb} :
           Register(g, "GET", pattern, 0, PathRoutes)
    \/ \E g \in DOMAIN groups : HandleFunc(g, P_b, PathRoutes)

SpecPaths == Init /\ [][PathsNext]_vars

\* ------------------------------------------------- route precedence (C1, C5)
\* Pattern matching as the routing contract words it: as many segments in the
\* pattern as in the path, a static segment equal to the path's, a ":name"
\* segment against any non-empty one.
IsParamSegment(seg) == Len(seg) >= 1 /\ seg[1] = ":"

PatternMatches(pattern, path) ==
    LET ps == Segments(pattern)
        qs == Segments(path)
    IN  /\ Len(ps) = Len(qs)
        /\ \A i \in 1..Len(ps) :
               IF IsParamSegment(ps[i]) THEN qs[i] # <<>> ELSE ps[i] = qs[i]

IsDynamic(pattern) == Contains(pattern, ":")

RouteMethod(k) == k[1]

RoutePattern(k) == SubSeq(k, 3, Len(k))

\* The table's routes of this method whose pattern matches the path.
Matching(method, path) ==
    {k \in DOMAIN Handlers :
        RouteMethod(k) = method /\ PatternMatches(RoutePattern(k), path)}

\* A static route S and a dynamic route D of one method that collide: D's
\* pattern matches S's path.
Collide(S, D) ==
    /\ S \in DOMAIN Handlers /\ D \in DOMAIN Handlers
    /\ RouteMethod(S) = RouteMethod(D)
    /\ ~IsDynamic(RoutePattern(S)) /\ IsDynamic(RoutePattern(D))
    /\ PatternMatches(RoutePattern(D), RoutePattern(S))

\* C1: with a static route S and a dynamic route D that matches S's path both
\* registered, a request for exactly S's path is dispatched to S whatever the
\* order of registration, and a request for a path that only D matches is
\* dispatched to D.
C1_StaticBeatsDynamic ==
    served.status # "none" =>
        \A S \in DOMAIN Handlers : \A D \in DOMAIN Handlers :
            (Collide(S, D) /\ RouteMethod(S) = served.method) =>
                /\ served.path = RoutePattern(S) => served.key = S
                /\ Matching(served.method, served.path) = {D} => served.key = D

\* C5: a request served through a route whose pattern ends in ":x" reaches the
\* handler with Param(r, "x") equal to the path segment the parameter stands
\* for.
C5_MockInjectsParam ==
    (/\ served.status = "served"
     /\ served.resp[1] = "h"
     /\ HasSuffix(RoutePattern(served.key), <<":", "x">>))
        => LET base == SplitFirst(RoutePattern(served.key), ":")
               captured == TrimPrefix(served.path, base)
           IN  (/\ HasPrefix(served.path, base)
                /\ captured # <<>>
                /\ ~Contains(captured, "/"))
                   => served.seen[<<"x">>] = captured

\* ------------------------------------------------ chains (C2, C3, C8)
\* The registration call whose handler the last request was handed to.
SvHid == TerminalOf(Handlers[served.key])[1]

\* The middlewares the last request entered, in order.
Entered == SelectSeq(served.trace, LAMBDA e : e[1] = "in")

\* The middlewares whose code after the continuation call ran, in order.
Left == SelectSeq(served.trace, LAMBDA e : e[1] = "out")

Reverse(seq) == [i \in 1..Len(seq) |-> seq[Len(seq) + 1 - i]]

\* C2: when a middleware of the route's chain returns without calling its
\* continuation, the terminal handler and every middleware inner to it do not
\* run and the response is that middleware's; when every middleware calls its
\* continuation, the terminal handler runs and writes the response.
C2_AbortShortCircuits ==
    served.status = "served" =>
        LET E == Expected(SvHid)
            hits == {i \in 1..Len(E) : E[i] \in served.deny}
        IN  IF hits = {}
            THEN /\ served.resp = <<"h", <<SvHid>>>>
                 /\ <<"h", <<SvHid>>>> \in Range(served.trace)
            ELSE LET f == CHOOSE i \in hits : \A j \in hits : i <= j
                 IN  /\ served.resp = <<"mw", E[f]>>
                     /\ \A e \in Range(served.trace) : e[1] # "h"
                     /\ \A j \in (f + 1)..Len(E) :
                            <<"in", E[j]>> \notin Range(served.trace)

\* A request refused by the second of at least three middlewares.
C2_Witness ==
    /\ served.status = "served"
    /\ Len(Expected(SvHid)) >= 3
    /\ Expected(SvHid)[1] \notin served.deny
    /\ Expected(SvHid)[2] \in served.deny
    /\ served.resp = <<"mw", Expected(SvHid)[2]>>

\* C3: for middlewares m1..mn added in that order, by Use calls and then as
\* arguments of Chain, around handler h, a request that every middleware lets
\* through enters m1, m2, ..., mn, then h, and the code after the continuation
\* calls runs in the order mn, ..., m1.
C3_OnionOrder ==
    (served.status = "served" /\ served.deny = {}) =>
        LET E == Expected(SvHid)
        IN  served.trace = [i \in 1..Len(E) |-> <<"in", E[i]>>]
                           \o << <<"h", <<SvHid>>>> >>
                           \o [i \in 1..Len(E) |-> <<"out", Reverse(E)[i]>>]

\* A request through two middlewares added by Use and two handed to Chain.
C3_Witness ==
    /\ served.status = "served"
    /\ served.deny = {}
    /\ Len(regLog[SvHid].stack) >= 2
    /\ regLog[SvHid].n = 2
    /\ Len(served.trace) >= 9

\* C8: a router made by Group starts with the middleware list its parent had
\* at the call, in the same order, its own middlewares after them; a request
\* to a route registered on it enters the inherited middlewares first.
C8_GroupInheritsStack ==
    /\ \A g \in DOMAIN groups :
           Stack(g) = groupLog[g].inherited
                      \o [k \in 1..groupLog[g].uses |-> UseMw(g, k)]
    /\ (served.status = "served" /\ served.deny = {}) =>
           LET inh == groupLog[regLog[SvHid].group].inherited
           IN  /\ Len(Entered) >= Len(inh)
               /\ SubSeq(Entered, 1, Len(inh)) = [i \in 1..Len(inh) |-> <<"in", inh[i]>>]

\* A request to a route of a group that inherited two middlewares and added
\* one of its own.
C8_Witness ==
    /\ served.status = "served"
    /\ served.deny = {}
    /\ regLog[SvHid].group > 1
    /\ Len(groupLog[regLog[SvHid].group].inherited) = 2
    /\ Len(regLog[SvHid].stack) = 3

\* ------------------------------------------------ group trees (C7, C9, C10)
\* Router g and the routers it descends from, up to the root.
RECURSIVE AncestorsOrSelf(_)
AncestorsOrSelf(g) ==
    IF g = 1 THEN {1} ELSE {g} \cup AncestorsOrSelf(groupLog[g].parent)

\* How many Group calls lie between the root and router g.
RECURSIVE Depth(_)
Depth(g) == IF g = 1 THEN 0 ELSE 1 + Depth(groupLog[g].parent)

\* C7: a middleware added by Use on a router is in the stack of that router
\* and of routers made from it afterwards only: never in its parent's, never in
\* a sibling's, whether the sibling was made before or after, and so not
\* around a route registered on one of them.
C7_UseStaysLocal ==
    /\ \A g \in DOMAIN groups : \A m \in Range(Stack(g)) : m[1] \in AncestorsOrSelf(g)
    /\ \A i \in DOMAIN regLog :
           \A m \in Range(regLog[i].stack) : m[1] \in AncestorsOrSelf(regLog[i].group)

\* Two siblings made from a parent with three middlewares, each with one of
\* its own, the parent's stack as it was.
C7_Witness ==
    \E c \in DOMAIN groups : \E d \in DOMAIN groups :
        /\ c # d /\ c > 1 /\ d > 1
        /\ groupLog[c].parent = groupLog[d].parent
        /\ groupLog[c].uses >= 1 /\ groupLog[d].uses >= 1
        /\ Len(groupLog[c].inherited) = 3 /\ Len(groupLog[d].inherited) = 3
        /\ Stack(groupLog[c].parent) = groupLog[c].inherited

\* The prefixes given to the Group calls from the root down to router g.
RECURSIVE PrefixChain(_)
PrefixChain(g) ==
    IF g = 1 THEN <<>> ELSE Append(PrefixChain(groupLog[g].parent), groupLog[g].path)

RECURSIVE Concat(_)
Concat(seqs) == IF seqs = <<>> THEN <<>> ELSE Head(seqs) \o Concat(Tail(seqs))

\* A prefix or pattern of the form "/name".
IsSlashName(p) ==
    /\ Len(p) >= 2
    /\ p[1] = "/"
    /\ \A i \in 2..Len(p) : p[i] # "/"

\* C9: a route with pattern q registered on a group nested under prefixes
\* p1..pk, each of the form "/name", is registered under the concatenation
\* p1 p2 ... pk q (a static q; on the Mock a ":name" q as well).
C9_NestedPrefixes ==
    \A i \in DOMAIN regLog :
        LET r == regLog[i]
            ps == PrefixChain(r.group)
        IN  (/\ \A j \in DOMAIN ps : IsSlashName(ps[j])
             /\ IsSlashName(r.pattern)
             /\ (driver = "mock" \/ ~IsDynamic(r.pattern)))
                => r.path = Concat(ps) \o r.pattern

\* A route registered two groups deep on the NativeAdapter.
C9_Witness ==
    \E i \in DOMAIN regLog :
        /\ driver = "native"
        /\ Depth(regLog[i].group) = 2
        /\ \A j \in DOMAIN PrefixChain(regLog[i].group) :
               IsSlashName(PrefixChain(regLog[i].group)[j])
        /\ regLog[i].path = P_aab

\* The two parts with exactly one "/" between them.
OneSlashJoin(prefix, path) ==
    TrimSuffix(prefix, <<"/">>) \o <<"/">> \o TrimPrefix(path, <<"/">>)

\* C10: joining a router's non-empty prefix with a sub-prefix or a static
\* route pattern puts exactly one "/" between the two, whatever slashes the
\* caller wrote at the joint.
C10_ExactlyOneSlash ==
    /\ \A g \in DOMAIN groups :
           (g > 1 /\ groups[groupLog[g].parent].prefix # <<>>)
               => groups[g].prefix
                      = OneSlashJoin(groups[groupLog[g].parent].prefix, groupLog[g].path)
    /\ \A i \in DOMAIN regLog :
           (groups[regLog[i].group].prefix # <<>> /\ ~IsDynamic(regLog[i].pattern))
               => regLog[i].path
                      = OneSlashJoin(groups[regLog[i].group].prefix, regLog[i].pattern)

\* ----------------------------------------- Fiber and Gin under load (C4, C6)
P_xy == <<"/", ":", "x", "/", ":", "y">>
P_ba == <<"/", "b", "/", "a">>

\* The engine's side of a request, as the adapters rely on it: the names of a
\* route's parameters in order (fiber.Route.Params), and their values for a
\* path the route matches (fiber.Ctx.Params, gin.Context.Param).
RouteParams(pattern) ==
    LET ps == SelectSeq(Segments(pattern), IsParamSegment)
    IN  [i \in 1..Len(ps) |-> Tail(ps[i])]

EngineCapture(pattern, path) ==
    LET ps == Segments(pattern)
        qs == Segments(path)
    IN  [name \in Range(RouteParams(pattern)) |->
            qs[CHOOSE i \in 1..Len(ps) : ps[i] = <<":">> \o name]]

IdleReq ==
    [pc |-> "idle", path |-> <<>>, c |-> 0, route |-> 0, seen |-> Nil, late |-> Nil]

\* An adapter on a fresh engine: no middleware, no route, no request yet.
EngineFresh ==
    /\ heap = (<<1, 0>> :> <<>>)
    /\ groups = <<[prefix |-> <<>>, middlewares |-> [arr |-> <<1, 0>>, len |-> 0]]>>
    /\ Handlers = <<>>
    /\ mux = <<>>
    /\ groupLog = <<[parent |-> 0, path |-> <<>>, inherited |-> <<>>, uses |-> 0]>>
    /\ regLog = <<>>
    /\ served = NoServe
    /\ fctx = <<>>
    /\ reqs = [r \in 1..ConcRequests |-> IdleReq]
    /\ params = <<>>
    /\ registry = <<>>
    /\ built = NoBuild
    /\ goroutines = <<>>

\* fiberadapter.New() / ginadapter.New() on a fresh engine, no request yet.
InitEngine ==
    /\ driver \in {"fiber", "gin"}
    /\ EngineFresh

\* (a *FiberAdapter) handle / (a *GinAdapter) handle on the root adapter,
\* before the server takes requests: Fiber gets the handler composed with the
\* adapter's middlewares, Gin the handler alone (the engine puts the functions
\* its Use was given so far in front of it).
Handle(method, pattern, maxRoutes) ==
    /\ driver \in {"fiber", "gin", "echo"}
    /\ Len(regLog) < maxRoutes
    /\ \A r \in DOMAIN reqs : reqs[r].pc = "idle"
    /\ LET hid == Len(regLog) + 1
           mws == IF driver = "fiber" THEN Stack(1) ELSE <<>>
           final == Compose(mws, Terminal(hid))
       IN  /\ mux' = Append(mux, [pattern |-> Key(method, pattern), handler |-> final])
           /\ regLog' = Append(regLog, [group |-> 1, method |-> method,
                                        pattern |-> pattern, hid |-> hid,
                                        path |-> pattern, stack |-> Stack(1), n |-> 0,
                                        serving |-> Serving])
    /\ UNCHANGED <<goroutines, factoryVars, driver, heap, groups, Handlers, groupLog, served, engineVars>>

\* The engine takes request r: a context from its pool, idle or new, holds the
\* values of the parameters of the route that matches, and the route's
\* closure is called with it.
EngineBegin(r, method, path) ==
    /\ reqs[r].pc = "idle"
    /\ \E i \in DOMAIN mux :
           /\ RouteMethod(mux[i].pattern) = method
           /\ PatternMatches(RoutePattern(mux[i].pattern), path)
           /\ LET idle == {c \in DOMAIN fctx : ~fctx[c].busy}
                  held == [busy |-> TRUE,
                           values |-> EngineCapture(RoutePattern(mux[i].pattern), path)]
              IN  \E c \in (IF idle = {} THEN {Len(fctx) + 1} ELSE idle) :
                      /\ fctx' = IF c \in DOMAIN fctx THEN [fctx EXCEPT ![c] = held]
                                 ELSE Append(fctx, held)
                      /\ reqs' = [reqs EXCEPT ![r] =
                                     [pc |-> "begun", path |-> path, c |-> c,
                                      route |-> i, seen |-> Nil,
                                      late |-> Nil]]
    /\ UNCHANGED <<goroutines, factoryVars, driver, heap, groups, Handlers, mux, groupLog, regLog, served, params>>

\* One map for every call of the closure: params declared outside of it.
ParamsCellShared(r) == 0

\* params := make(map[string]string): the map of this call of the closure.
ParamsCell(r) == r

\* The closure's loop over r.Params: each name's value copied into params.
FiberCopyParams(r) ==
    /\ driver = "fiber"
    /\ reqs[r].pc = "begun"
    /\ LET names == Range(RouteParams(RoutePattern(mux[reqs[r].route].pattern)))
       IN  params' = (ParamsCell(r) :> [name \in names |-> EngineParam(reqs[r].c, name)])
                     @@ params
    /\ reqs' = [reqs EXCEPT ![r].pc = "copied"]
    /\ UNCHANGED <<goroutines, factoryVars, driver, heap, groups, Handlers, mux, groupLog, regLog, served, fctx>>

\* The orders a range over a map with these keys may take.
Orders(S) ==
    {o \in [1..Cardinality(S) -> S] : \A i, j \in DOMAIN o : i # j => o[i] # o[j]}

\* The adapted handler of the closure: the parameters go into the request
\* context and the composed chain runs with it; its handler reads Param.
FiberServe(r) ==
    /\ driver = "fiber"
    /\ reqs[r].pc = "copied"
    /\ \E order \in Orders(DOMAIN params[ParamsCell(r)]) :
           LET ctx == FiberInject(EmptyCtx, order, params[ParamsCell(r)])
               res == Exec(mux[reqs[r].route].handler, {}, ctx)
           IN  reqs' = [reqs EXCEPT ![r].pc = "served", ![r].seen = res.seen]
    /\ UNCHANGED <<goroutines, factoryVars, driver, heap, groups, Handlers, mux, groupLog, regLog, served,
                   fctx, params>>

\* The function GinAdapter.handle registered: the *gin.Context goes into the
\* request context and the handler runs with it; it reads Param.
GinServe(r) ==
    /\ driver = "gin"
    /\ reqs[r].pc = "begun"
    /\ LET ctx == (ginParamsKey :> reqs[r].c) @@ EmptyCtx
           res == Exec(mux[reqs[r].route].handler, {}, ctx)
       IN  reqs' = [reqs EXCEPT ![r].pc = "served", ![r].seen = res.seen]
    /\ UNCHANGED <<goroutines, factoryVars, driver, heap, groups, Handlers, mux, groupLog, regLog, served,
                   fctx, params>>

\* The closure has returned: the engine takes the context back into its pool.
EngineEnd(r) ==
    /\ reqs[r].pc = "served"
    /\ fctx' = [fctx EXCEPT ![reqs[r].c] = [busy |-> FALSE, values |-> <<>>]]
    /\ reqs' = [reqs EXCEPT ![r].pc = "done"]
    /\ UNCHANGED <<goroutines, factoryVars, driver, heap, groups, Handlers, mux, groupLog, regLog, served, params>>

ConcNext ==
    \/ \E pattern \in {P_x, P_xy} : Handle("GET", pattern, ConcRoutes)
    \/ \E r \in DOMAIN reqs : \E path \in {P_a, P_b, P_ab, P_ba} :
           EngineBegin(r, "GET", path)
    \/ \E r \in DOMAIN reqs : FiberCopyParams(r)
    \/ \E r \in DOMAIN reqs : FiberServe(r)
    \/ \E r \in DOMAIN reqs : GinServe(r)
    \/ \E r \in DOMAIN reqs : EngineEnd(r)

SpecConcurrent == InitEngine /\ [][ConcNext]_vars

\* The pattern of the route request r was handed to.
ReqPattern(r) == RoutePattern(mux[reqs[r].route].pattern)

\* The segment of path that stands where pattern has ":name".
Bound(pattern, path, name) ==
    LET ps == Segments(pattern)
        i == CHOOSE k \in 1..Len(ps) : ps[k] = <<":">> \o name
    IN  Segments(path)[i]

\* C4: inside the handler of a route with parameters p1..pn, Param(r, pi) is
\* the path segment bound to pi, for every i: the Fiber adapter puts every
\* parameter of the matched route into the request context and Param reads it
\* back unchanged.
C4_ParamRoundTrip ==
    \A r \in DOMAIN reqs :
        reqs[r].pc \in {"served", "done"} =>
            \A name \in Range(RouteParams(ReqPattern(r))) :
                reqs[r].seen[name] = Bound(ReqPattern(r), reqs[r].path, name)

\* A Fiber request for /a/b through the route /:x/:y whose handler has read
\* x = "a" and y = "b".
C4_Witness ==
    \E r \in DOMAIN reqs :
        /\ driver = "fiber"
        /\ reqs[r].pc = "served"
        /\ reqs[r].path = P_ab
        /\ ReqPattern(r) = P_xy
        /\ reqs[r].seen[<<"x">>] = <<"a">>
        /\ reqs[r].seen[<<"y">>] = <<"b">>

\* C6: of two requests in flight on one parameterised route with different
\* values for a parameter, the handler of each reads its own value and never
\* the other's, however their steps interleave.
C6_RequestsIsolated ==
    \A r \in DOMAIN reqs : \A q \in DOMAIN reqs :
        (/\ r # q
         /\ reqs[r].pc \in {"served", "done"}
         /\ reqs[q].pc # "idle"
         /\ reqs[q].route = reqs[r].route) =>
            \A name \in Range(RouteParams(ReqPattern(r))) :
                LET mine == Bound(ReqPattern(r), reqs[r].path, name)
                    theirs == Bound(ReqPattern(q), reqs[q].path, name)
                IN  mine # theirs =>
                        /\ reqs[r].seen[name] = mine
                        /\ reqs[r].seen[name] # theirs

\* A Fiber handler that has read its parameters while another request for the
\* same route, with another value, has its own copied and is yet to be served.
C6_Witness ==
    \E r \in DOMAIN reqs : \E q \in DOMAIN reqs :
        /\ driver = "fiber"
        /\ reqs[r].pc = "served"
        /\ reqs[q].pc = "copied"
        /\ reqs[q].route = reqs[r].route
        /\ ReqPattern(r) = P_x
        /\ reqs[r].path # reqs[q].path
        /\ reqs[r].seen[<<"x">>] = Bound(P_x, reqs[r].path, <<"x">>)

\* --------------------------------------------- the Gin middleware bridge (C11)
\* A gin.Context while the engine runs a route's functions hs (the functions
\* Use was given, then the route's): index is the function running, trace the
\* events so far, resp who wrote the response.
\* c.Abort(): the index moves past every function.
GinAbort(hs, c, m) ==
    [c EXCEPT !.index = Len(hs) + 1, !.trace = Append(@, <<"abort", m>>)]

\* The bridge without its last lines: Abort is never called.
GinAfterMwSilent(hs, c, m, called) == c

\* if !called { c.Abort() }
GinAfterMw(hs, c, m, called) == IF ~called THEN GinAbort(hs, c, m) ELSE c

\* A continuation that leaves the flag as it was.
CalledNeverSet(m) == FALSE

\* called = true: the flag of middleware m once it invoked finalHandler.
CalledSet(m) == TRUE

RECURSIVE GinLoop(_, _, _)
RECURSIVE GinCall(_, _, _)
\* c.Next(): the functions after the running one are called in turn, until
\* the index is past the last.
GinNext(hs, deny, c) == GinLoop(hs, deny, [c EXCEPT !.index = @ + 1])

GinLoop(hs, deny, c) ==
    IF c.index > Len(hs) THEN c
    ELSE LET d == GinCall(hs, deny, c)
         IN  GinLoop(hs, deny, [d EXCEPT !.index = @ + 1])

\* The function at c.index is called.  The one GinAdapter.handle registered
\* runs the handler.  The one GinAdapter.Use registered runs the middleware
\* around finalHandler: a middleware in deny writes its response and returns,
\* any other calls finalHandler, which sets called and calls c.Next(); then
\* Abort is called if called is still false.
GinCall(hs, deny, c) ==
    LET f == hs[c.index]
    IN  IF f[1] = "h"
        THEN [c EXCEPT !.trace = Append(@, f), !.resp = f]
        ELSE LET m == f[2]
                 in == [c EXCEPT !.trace = Append(@, <<"in", m>>)]
             IN  IF m \in deny
                 THEN GinAfterMw(hs, [in EXCEPT !.trace = Append(@, <<"deny", m>>),
                                                !.resp = <<"mw", m>>],
                                 m, FALSE)
                 ELSE LET d == GinNext(hs, deny,
                                       [in EXCEPT !.trace = Append(@, <<"next", m>>)])
                      IN  GinAfterMw(hs, [d EXCEPT !.trace = Append(@, <<"out", m>>)],
                                     m, CalledSet(m))

\* The functions the engine holds for the route of registration hid.
GinHandlers(hid) ==
    [i \in 1..Len(regLog[hid].stack) |-> <<"mw", regLog[hid].stack[i]>>]
    \o << <<"h", <<hid>>>> >>

\* ginadapter on gin.Default().
InitGin ==
    /\ InitEngine
    /\ driver = "gin"

\* The engine serves a request: the functions of a route that matches run on
\* a context, from the first on; without such a route the answer is 404.
GinServeHTTP(method, path) ==
    /\ driver = "gin"
    /\ LET cand == {i \in DOMAIN mux :
                       /\ RouteMethod(mux[i].pattern) = method
                       /\ PatternMatches(RoutePattern(mux[i].pattern), path)}
       IN  IF cand = {}
           THEN served' = [method |-> method, path |-> path, deny |-> {},
                           fault |-> {}, hmethod |-> "",
                           key |-> Nil, hid |-> 0, status |-> "404", trace |-> <<>>,
                           resp |-> <<"404", <<>>>>, seen |-> Nil]
           ELSE \E i \in cand :
                LET hid == TerminalOf(mux[i].handler)[1]
                IN  \E deny \in Refusals(regLog[hid].stack) :
                        LET c == GinNext(GinHandlers(hid), deny,
                                         [index |-> 0, trace |-> <<>>, resp |-> Nil])
                        IN  served' = [method |-> method, path |-> path,
                                       deny |-> deny, fault |-> {},
                                       hmethod |-> method,
                                       key |-> mux[i].pattern,
                                       hid |-> hid, status |-> "served",
                                       trace |-> c.trace, resp |-> c.resp,
                                       seen |-> Nil]
    /\ UNCHANGED <<goroutines, factoryVars, driver, heap, groups, Handlers, mux, groupLog, regLog, engineVars>>

GinNext1 ==
    \/ Use(1, GinUses)
    \/ \E pattern \in {P_b, P_x} : Handle("GET", pattern, GinRoutes)
    \/ \E path \in {P_a, P_b, P_ab} : GinServeHTTP("GET", path)

SpecGin == InitGin /\ [][GinNext1]_vars

\* C11: on Gin, for each middleware given to Use that a request enters: Abort
\* is called if and only if the middleware returned without calling its
\* continuation, Next is called if and only if it called it; after a refusal
\* neither the middlewares inside it nor the handler run, and without one the
\* handler runs and Abort is never called.
C11_GinAbortIffNotCalled ==
    (driver = "gin" /\ served.status = "served") =>
        LET E == regLog[served.hid].stack
            T == Range(served.trace)
        IN  /\ \A j \in 1..Len(E) :
                   <<"in", E[j]>> \in T =>
                       /\ <<"abort", E[j]>> \in T <=> E[j] \in served.deny
                       /\ <<"next", E[j]>> \in T <=> E[j] \notin served.deny
            /\ \A j \in 1..Len(E) :
                   E[j] \in served.deny =>
                       /\ <<"h", <<served.hid>>>> \notin T
                       /\ \A k \in (j + 1)..Len(E) : <<"in", E[k]>> \notin T
            /\ served.deny = {} =>
                   /\ <<"h", <<served.hid>>>> \in T
                   /\ \A j \in 1..Len(E) : <<"in", E[j]>> \in T

\* A request the second of three middlewares refused: Abort called for it, Next
\* for the first, the third never entered.
C11_Witness ==
    /\ driver = "gin"
    /\ served.status = "served"
    /\ Len(regLog[served.hid].stack) = 3
    /\ regLog[served.hid].stack[2] \in served.deny
    /\ <<"abort", regLog[served.hid].stack[2]>> \in Range(served.trace)
    /\ <<"next", regLog[served.hid].stack[1]>> \in Range(served.trace)
    /\ <<"in", regLog[served.hid].stack[3]>> \notin Range(served.trace)

\* ------------------------------------------------------- panics (C12)
\* Running handler H for a request that makes the functions in fault panic
\* when they are called.  A panic unwinds the calls around it: the code of the
\* outer middlewares after their continuation call does not run.
RECURSIVE ExecFault(_, _, _, _)
ExecFault(H, deny, fault, ctx) ==
    IF H[1] = "h"
    THEN IF H[2] \in fault
         THEN [trace |-> << <<"panic", H[2]>> >>, resp |-> Nil, seen |-> Nil,
               panic |-> TRUE]
         ELSE [trace |-> << <<"h", H[2]>> >>, resp |-> <<"h", H[2]>>,
               seen |-> [n \in ParamNames |-> Param(ctx, n)], panic |-> FALSE]
    ELSE IF H[2] \in fault
    THEN [trace |-> << <<"in", H[2]>>, <<"panic", H[2]>> >>, resp |-> Nil,
          seen |-> Nil, panic |-> TRUE]
    ELSE IF H[2] \in deny
    THEN [trace |-> << <<"in", H[2]>>, <<"deny", H[2]>> >>, resp |-> <<"mw", H[2]>>,
          seen |-> Nil, panic |-> FALSE]
    ELSE LET r == ExecFault(H[3], deny, fault, ctx)
         IN  IF r.panic
             THEN [r EXCEPT !.trace = << <<"in", H[2]>> >> \o @]
             ELSE [r EXCEPT !.trace = << <<"in", H[2]>> >> \o @ \o << <<"out", H[2]>> >>]

\* The function of a composed handler, if any, a request can make panic.
Faults(H) == {{}} \cup {{m} : m \in Range(Layers(H))} \cup {{TerminalOf(H)}}

\* What the caller of a dispatch gets from a run r: the response when the run
\* returned, the panic itself when nothing recovered it.
Outcome(r) ==
    IF r.panic THEN [status |-> "panic", trace |-> r.trace, resp |-> Nil]
    ELSE [status |-> "served", trace |-> r.trace, resp |-> r.resp]

\* The closure without its deferred function.
FiberUnrecovered(r) == Outcome(r)

\* defer func() { if r := recover(); r != nil { fmt.Printf(...);
\* c.Status(500).SendString("Panic Detected") } }()
FiberRecover(r) ==
    IF r.panic
    THEN [status |-> "500", trace |-> Append(r.trace, <<"report", <<>>>>),
          resp |-> <<"500", <<>>>>]
    ELSE Outcome(r)

\* NewMockRouter() or fiberadapter on a fresh engine.
InitFault ==
    /\ InitEngine \/ Init
    /\ driver \in {"mock", "fiber"}

\* (m *MockRouter) ServeHTTP(w, r) for a request that may make a function of
\* the chosen route panic: nothing on the way recovers.
ServeHTTPFault(method, path) ==
    /\ driver = "mock"
    /\ \E k \in Candidates(Handlers, method, path) :
       \E deny \in Refusals(Layers(Handlers[k])) :
       \E fault \in Faults(Handlers[k]) :
           LET r == ExecFault(Handlers[k], deny, fault, ServeCtx(EmptyCtx, k, path))
               o == Outcome(r)
           IN  served' = [method |-> method, path |-> path, deny |-> deny,
                          fault |-> fault, hmethod |-> HandedMethod(method, k),
                          key |-> k,
                          hid |-> TerminalOf(Handlers[k])[1], status |-> o.status,
                          trace |-> o.trace, resp |-> o.resp, seen |-> r.seen]
    /\ UNCHANGED <<goroutines, factoryVars, driver, heap, groups, Handlers, mux, groupLog, regLog, engineVars>>

\* The closure FiberAdapter.handle registered, called by the engine for a
\* request its route matches: parameters copied and injected, the composed
\* chain run, a panic recovered.
FiberDispatch(method, path) ==
    /\ driver = "fiber"
    /\ \E i \in DOMAIN mux :
           /\ RouteMethod(mux[i].pattern) = method
           /\ PatternMatches(RoutePattern(mux[i].pattern), path)
           /\ LET ps == EngineCapture(RoutePattern(mux[i].pattern), path)
              IN  \E order \in Orders(DOMAIN ps) :
                  \E deny \in Refusals(Layers(mux[i].handler)) :
                  \E fault \in Faults(mux[i].handler) :
                      LET r == ExecFault(mux[i].handler, deny, fault,
                                         FiberInject(EmptyCtx, order, ps))
                          o == FiberRecover(r)
                      IN  served' = [method |-> method, path |-> path,
                                     deny |-> deny, fault |-> fault,
                                     hmethod |-> method,
                                     key |-> mux[i].pattern,
                                     hid |-> TerminalOf(mux[i].handler)[1],
                                     status |-> o.status, trace |-> o.trace,
                                     resp |-> o.resp, seen |-> r.seen]
    /\ UNCHANGED <<goroutines, factoryVars, driver, heap, groups, Handlers, mux, groupLog, regLog, engineVars>>

FaultNext ==
    \/ Use(1, FaultUses)
    \/ driver = "mock" /\ \E n \in {0, FaultArgs} :
           Register(1, "GET", P_b, n, FaultRoutes)
    \/ driver = "fiber" /\ Handle("GET", P_b, FaultRoutes)
    \/ ServeHTTPFault("GET", P_b)
    \/ FiberDispatch("GET", P_b)

SpecFault == InitFault /\ [][FaultNext]_vars

\* A function of the route panicked while the last request was dispatched.
Panicked == \E e \in Range(served.trace) : e[1] = "panic"

C13_ResolutionDeterministic ==
    [][(/\ served.status = "served"
        /\ served'.status = "served"
        /\ served'.method = served.method
        /\ served'.path = served.path
        /\ Handlers' = Handlers)
       => (served'.key = served.key /\ served'.hid = served.hid)]_vars

\* The keys registration call i stored its handler under.
RegKeys(i) ==
    IF regLog[i].method = "*"
    THEN {Key(mockMethods[j], regLog[i].path) : j \in DOMAIN mockMethods}
    ELSE {Key(regLog[i].method, regLog[i].path)}

\* The registration calls that stored under key, in call order.
RegistrationsOf(key) == {i \in DOMAIN regLog : key \in RegKeys(i)}

First(S) == CHOOSE i \in S : \A j \in S : i <= j
Last(S) == CHOOSE i \in S : \A j \in S : j <= i

\* The last dispatch found its route by the exact key.
ExactHit == served.status = "served" /\ served.key = Key(served.method, served.path)

\* C14 as stated: of several registrations of one method and pattern, the
\* first registered is the one a request for it is dispatched to.
C14_FirstRegistrationWins ==
    ExactHit => served.hid = First(RegistrationsOf(served.key))

\* C14, as the code has it: of several registrations of one method and
\* pattern, the last registered is the one dispatched; it replaced the others.
C14_LastRegistrationWins ==
    /\ \A k \in DOMAIN Handlers :
           TerminalOf(Handlers[k])[1] = Last(RegistrationsOf(k))
    /\ ExactHit => served.hid = Last(RegistrationsOf(served.key))

\* A request served by the second of two registrations of its key.
C14_Witness ==
    /\ ExactHit
    /\ Cardinality(RegistrationsOf(served.key)) >= 2
    /\ served.hid = Last(RegistrationsOf(served.key))
    /\ served.hid # First(RegistrationsOf(served.key))

\* The last request found no route under its method although the table holds
\* one for its path under another method.
OtherMethodOnly ==
    /\ served.status \notin {"none", "served"}
    /\ \E j \in DOMAIN mockMethods :
           /\ mockMethods[j] # served.method
           /\ Candidates(Handlers, mockMethods[j], served.path) # {}

C16_SameSegmentCount ==
    served.status = "served" =>
        Len(Segments(RoutePattern(served.key))) = Len(Segments(served.path))

C18_DispatchLeavesRouter ==
    [][served'.status # "none" =>
        /\ Handlers' = Handlers
        /\ mux' = mux
        /\ groups' = groups
        /\ heap' = heap]_vars

\* A request served through the fallback by a router that has a group and a
\* middleware.
C18_Witness ==
    /\ served.status = "served"
    /\ served.key # Key(served.method, served.path)
    /\ Len(groups) >= 2
    /\ \E g \in DOMAIN groups : groups[g].middlewares.len > 0

\* ------------------------------------------------ the called flag (C19)
\* The value of GinAdapter.Use's flag `called` for middleware m when m
\* returned, as the adapter acted on it: Abort was not called for m.
CalledFlag(m) ==
    /\ <<"in", m>> \in Range(served.trace)
    /\ <<"abort", m>> \notin Range(served.trace)

\* The terminal handler of the served route ran.
Reached == <<"h", <<served.hid>>>> \in Range(served.trace)

Drivers == {"gin", "echo", "fiber", "chi", "mock", "native"}

\* The router a constructor returns: a fresh one of the constructor's making.
Construct(c) == [madeBy |-> c, routes |-> <<>>]

\* A lookup that, for a driver without a constructor, takes the constructor
\* of some driver that has one.
LookupOrAny(reg, d) ==
    IF d \in DOMAIN reg THEN [ok |-> TRUE, constructor |-> reg[d]]
    ELSE IF DOMAIN reg # {}
    THEN [ok |-> TRUE, constructor |-> reg[CHOOSE e \in DOMAIN reg : TRUE]]
    ELSE [ok |-> FALSE, constructor |-> 0]

\* constructor, ok := registry[cfg.Driver]
Lookup(reg, d) ==
    IF d \in DOMAIN reg THEN [ok |-> TRUE, constructor |-> reg[d]]
    ELSE [ok |-> FALSE, constructor |-> 0]

\* Register(d, c), as the init() of a driver file calls it: registry[d] = c.
RegisterDriver(d, c) ==
    /\ registry' = (d :> c) @@ registry
    /\ built' = NoBuild
    /\ UNCHANGED <<driver, heap, groups, Handlers, mux, groupLog, regLog, served,
                   engineVars, goroutines>>

\* New(cfg) with cfg.Driver = d: the router the registered constructor
\* returns, or a panic when the registry has none for d.
New(d) ==
    /\ LET l == Lookup(registry, d)
       IN  built' = IF ~l.ok
                    THEN [status |-> "panic", driver |-> d, router |-> Nil]
                    ELSE [status |-> "built", driver |-> d,
                          router |-> Construct(l.constructor)]
    /\ UNCHANGED <<driver, heap, groups, Handlers, mux, groupLog, regLog, served,
                   engineVars, registry, goroutines>>

FactoryNext ==
    \/ \E d \in Drivers : \E c \in 1..FactoryCtors : RegisterDriver(d, c)
    \/ \E d \in Drivers : New(d)

SpecFactory == InitMock /\ [][FactoryNext]_vars

\* C20: New returns the router built by the constructor registered for
\* cfg.Driver (the one registered last for it), and panics, returning no
\* router, when none is registered: it never falls back to another driver.
C20_NewUsesRegisteredConstructor ==
    /\ built.status = "built" =>
           /\ built.driver \in DOMAIN registry
           /\ built.router = Construct(registry[built.driver])
    /\ built.status = "panic" =>
           /\ built.driver \notin DOMAIN registry
           /\ built.router = Nil
    /\ built.status # "none" =>
           (built.status = "panic" <=> built.driver \notin DOMAIN registry)

\* New panicked for a driver without a constructor while other drivers had
\* one.
C20_Witness ==
    /\ built.status = "panic"
    /\ built.driver \notin DOMAIN registry
    /\ Cardinality(DOMAIN registry) >= 2

\* ------------------------------------------------- build tags (C21)
\* The tags a build can be given.
BuildTags == {"fiber", "echo", "gin", "chi", "native"}

\* The drivers whose file is compiled under the tags, by the files'
\* //go:build lines: each of fiber, echo, gin and native under its own tag, chi
\* under its own tag or when none of fiber, gin and echo is given.
Compiled(tags) ==
    {d \in {"fiber", "echo", "gin", "native"} : d \in tags}
    \cup (IF "chi" \in tags \/ tags \cap {"fiber", "gin", "echo"} = {}
          THEN {"chi"} ELSE {})

\* The registry once the init() functions of the compiled files have run: each
\* registers the constructor of its own adapter under its own Driver.
Linked(tags) == [d \in Compiled(tags) |-> d]

\* The program at the start of main, built under some tags.
InitBuild ==
    /\ driver = "mock"
    /\ heap = (<<1, 0>> :> <<>>)
    /\ groups = <<[prefix |-> <<>>, middlewares |-> [arr |-> <<1, 0>>, len |-> 0]]>>
    /\ Handlers = <<>>
    /\ mux = <<>>
    /\ groupLog = <<[parent |-> 0, path |-> <<>>, inherited |-> <<>>, uses |-> 0]>>
    /\ regLog = <<>>
    /\ served = NoServe
    /\ fctx = <<>>
    /\ reqs = <<>>
    /\ params = <<>>
    /\ \E tags \in SUBSET BuildTags : registry = Linked(tags)
    /\ built = NoBuild
    /\ goroutines = <<>>

BuildNext == \E d \in Drivers : New(d)

SpecBuild == InitBuild /\ [][BuildNext]_vars

\* C21: whatever the build tags, New for DriverMock returns a mock router and
\* does not panic.
C21_MockNeedsNoTag ==
    (built.status # "none" /\ built.driver = "mock") =>
        /\ built.status = "built"
        /\ built.router = Construct("mock")

\* ------------------------------------------------- goroutines (C22)
IdleCall == [pc |-> "idle", call |-> "", g |-> 0, arg |-> Nil, local |-> Nil]

\* One MockRouter handed to RaceGoroutines goroutines.
InitRace ==
    /\ driver = "mock"
    /\ heap = (<<1, 0>> :> <<>>)
    /\ groups = <<[prefix |-> <<>>, middlewares |-> [arr |-> <<1, 0>>, len |-> 0]]>>
    /\ Handlers = <<>>
    /\ mux = <<>>
    /\ groupLog = <<[parent |-> 0, path |-> <<>>, inherited |-> <<>>, uses |-> 0]>>
    /\ regLog = <<>>
    /\ served = NoServe
    /\ fctx = <<>>
    /\ reqs = <<>>
    /\ params = <<>>
    /\ registry = <<>>
    /\ built = NoBuild
    /\ goroutines = [t \in 1..RaceGoroutines |-> IdleCall]

Running == \A t \in DOMAIN goroutines : goroutines[t].pc # "fatal"

\* Goroutine t calls Use(mw) on router g: the call is about to load
\* m.middlewares.
GoUse(t, g) ==
    /\ Running
    /\ goroutines[t].pc = "idle"
    /\ groups[g].middlewares.len < RaceUses
    /\ goroutines' = [goroutines EXCEPT ![t] =
           [pc |-> "load", call |-> "Use", g |-> g,
            arg |-> UseMw(g, t), local |-> Nil]]
    /\ UNCHANGED <<driver, heap, groups, Handlers, mux, groupLog, regLog, served,
                   engineVars, factoryVars>>

\* Goroutine t calls GET(pattern, h) on router g: register is about to read
\* m.prefix and m.middlewares.
GoRegister(t, g, pattern) ==
    /\ Running
    /\ goroutines[t].pc = "idle"
    /\ goroutines' = [goroutines EXCEPT ![t] =
           [pc |-> "compose", call |-> "register", g |-> g,
            arg |-> pattern, local |-> Nil]]
    /\ UNCHANGED <<driver, heap, groups, Handlers, mux, groupLog, regLog, served,
                   engineVars, factoryVars>>

\* Goroutine t calls ServeHTTP for GET path: it is about to look m.Handlers up.
GoServe(t, path) ==
    /\ Running
    /\ goroutines[t].pc = "idle"
    /\ goroutines' = [goroutines EXCEPT ![t] =
           [pc |-> "lookup", call |-> "ServeHTTP", g |-> 1,
            arg |-> path, local |-> Nil]]
    /\ UNCHANGED <<driver, heap, groups, Handlers, mux, groupLog, regLog, served,
                   engineVars, factoryVars>>

\* The access to the router's shared state goroutine t makes next: the Handlers
\* map (shared by all groups) or the middleware slice of router g, read or
\* written.  No call takes a lock.
Access(t) ==
    LET c == goroutines[t]
    IN  CASE c.pc = "load" -> [loc |-> <<"middlewares", c.g>>, write |-> FALSE]
          [] c.pc = "append" -> [loc |-> <<"middlewares", c.g>>, write |-> TRUE]
          [] c.pc = "compose" -> [loc |-> <<"middlewares", c.g>>, write |-> FALSE]
          [] c.pc = "store" -> [loc |-> <<"Handlers", 0>>, write |-> TRUE]
          [] c.pc = "lookup" -> [loc |-> <<"Handlers", 0>>, write |-> FALSE]
          [] OTHER -> [loc |-> Nil, write |-> FALSE]

\* Goroutines t and u are about to make conflicting accesses: the same
\* location, one of them a write, nothing ordering them.
Conflict(t, u) ==
    /\ t # u
    /\ Access(t).loc # Nil
    /\ Access(t).loc = Access(u).loc
    /\ Access(t).write \/ Access(u).write

\* m.middlewares = append(m.middlewares, mw), first half: the slice is loaded.
GoLoad(t) ==
    /\ Running
    /\ goroutines[t].pc = "load"
    /\ goroutines' = [goroutines EXCEPT ![t].pc = "append",
                                        ![t].local = groups[goroutines[t].g].middlewares]
    /\ UNCHANGED <<driver, heap, groups, Handlers, mux, groupLog, regLog, served,
                   engineVars, factoryVars>>

\* Second half: the element is appended to the slice that was loaded and the
\* result assigned to m.middlewares.
GoAppendStore(t) ==
    /\ Running
    /\ goroutines[t].pc = "append"
    /\ LET c == goroutines[t]
           r == GoAppend(heap, c.local, c.arg, c.g)
       IN  /\ heap' = r.heap
           /\ groups' = [groups EXCEPT ![c.g].middlewares = r.slice]
    /\ goroutines' = [goroutines EXCEPT ![t] = IdleCall]
    /\ UNCHANGED <<driver, Handlers, mux, groupLog, regLog, served,
                   engineVars, factoryVars>>

\* register, first half: key and finalHandler are made from m.prefix and
\* m.middlewares.
GoCompose(t) ==
    /\ Running
    /\ goroutines[t].pc = "compose"
    /\ LET c == goroutines[t]
       IN  goroutines' = [goroutines EXCEPT
               ![t].pc = "store",
               ![t].local = [key |-> Key("GET", FullPath(groups[c.g].prefix, c.arg)),
                             final |-> Compose(Stack(c.g), Terminal(t))]]
    /\ UNCHANGED <<driver, heap, groups, Handlers, mux, groupLog, regLog, served,
                   engineVars, factoryVars>>

\* What an access to the map does when another goroutine's access conflicts
\* with it: the runtime may detect it ("fatal error: concurrent map read and
\* map write") and end the process, or the access goes through.
MapOutcomes(t) ==
    IF \E u \in DOMAIN goroutines : Conflict(t, u) THEN {"done", "fatal"} ELSE {"done"}

\* register, second half: m.Handlers[key] = finalHandler.ServeHTTP
GoStore(t) ==
    /\ Running
    /\ goroutines[t].pc = "store"
    /\ \E o \in MapOutcomes(t) :
           IF o = "fatal"
           THEN /\ goroutines' = [goroutines EXCEPT ![t].pc = "fatal"]
                /\ Handlers' = Handlers
           ELSE /\ goroutines' = [goroutines EXCEPT ![t] = IdleCall]
                /\ Handlers' = MockStore(Handlers, goroutines[t].local.key,
                                         goroutines[t].local.final)
    /\ UNCHANGED <<driver, heap, groups, mux, groupLog, regLog, served,
                   engineVars, factoryVars>>

\* ServeHTTP: m.Handlers is looked up (and ranged over); the handler found
\* then runs without touching the router.
GoLookup(t) ==
    /\ Running
    /\ goroutines[t].pc = "lookup"
    /\ \E o \in MapOutcomes(t) :
           goroutines' = [goroutines EXCEPT ![t] =
               IF o = "fatal" THEN [goroutines[t] EXCEPT !.pc = "fatal"] ELSE IdleCall]
    /\ UNCHANGED <<driver, heap, groups, Handlers, mux, groupLog, regLog, served,
                   engineVars, factoryVars>>

RaceNext ==
    \/ (\A t \in DOMAIN goroutines : goroutines[t].pc = "idle") /\ Group(1, P_a, RaceGroups)
    \/ \E t \in DOMAIN goroutines : \E g \in DOMAIN groups : GoUse(t, g)
    \/ \E t \in DOMAIN goroutines : \E g \in DOMAIN groups : GoRegister(t, g, P_b)
    \/ \E t \in DOMAIN goroutines : GoServe(t, P_b)
    \/ \E t \in DOMAIN goroutines : GoLoad(t)
    \/ \E t \in DOMAIN goroutines : GoAppendStore(t)
    \/ \E t \in DOMAIN goroutines : GoCompose(t)
    \/ \E t \in DOMAIN goroutines : GoStore(t)
    \/ \E t \in DOMAIN goroutines : GoLookup(t)

SpecRace == InitRace /\ [][RaceNext]_vars

\* C22: in no interleaving of calls on one MockRouter and its groups are two
\* goroutines about to make conflicting accesses to the Handlers map or to a
\* middleware slice with nothing ordering them.
C22_NoDataRace ==
    \A t, u \in DOMAIN goroutines : ~Conflict(t, u)

\* ------------------------------------------- stacks at registration (C23, C28)
\* C23: a served route ran the middlewares its group had when the route was
\* registered (all of them when none refused), and none of those the group was
\* given by Use afterwards, which routes registered later do run.
C23_StackBoundAtRegistration ==
    (driver = "mock" /\ served.status = "served") =>
        LET i == served.hid
            g == regLog[i].group
            T == Range(served.trace)
        IN  /\ \A m \in Range(Stack(g)) :
                   m \notin Range(regLog[i].stack) => <<"in", m>> \notin T
            /\ served.deny = {} =>
                   \A m \in Range(regLog[i].stack) : <<"in", m>> \in T

\* Two routes of one router with a Use between them: the request went to the
\* first and did not run the middleware the second is wrapped in.
C23_Witness ==
    /\ served.status = "served"
    /\ \E j \in DOMAIN regLog : \E m \in Range(Stack(regLog[j].group)) :
           /\ served.hid < j
           /\ regLog[j].group = regLog[served.hid].group
           /\ m \notin Range(regLog[served.hid].stack)
           /\ m \in Range(regLog[j].stack)
           /\ m \in Range(Layers(Handlers[Key(regLog[j].method, regLog[j].path)]))
           /\ <<"in", m>> \notin Range(served.trace)

\* ------------------------------------------------- HandleFunc (C24)
\* C24: once HandleFunc(pattern, h) was called on a router, a request for the
\* router's prefix + pattern with any of GET, POST, PUT, DELETE and PATCH
\* resolves to h wrapped in the middlewares the router had at the call, and
\* a request so dispatched runs h, which is handed the request's own method.
C24_HandleFuncServesAllMethods ==
    /\ \A i \in DOMAIN regLog : \A method \in RequestMethods :
           (regLog[i].method = "*" /\ i = Last(RegistrationsOf(Key(method, regLog[i].path))))
           => /\ Candidates(Handlers, method, regLog[i].path) = {Key(method, regLog[i].path)}
              /\ Handlers[Key(method, regLog[i].path)]
                     = Compose(regLog[i].stack, Terminal(i))
    /\ (served.status # "none" /\ \E i \in DOMAIN regLog :
            regLog[i].method = "*" /\ regLog[i].path = served.path)
       => /\ served.status = "served"
          /\ served.hmethod = served.method
          /\ regLog[served.hid].path = served.path
          /\ Layers(Handlers[served.key]) = regLog[served.hid].stack
          /\ served.deny = {} => served.resp = <<"h", <<served.hid>>>>

\* A PATCH for a handler registered with HandleFunc on a group that has a
\* middleware: handler reached, the method handed on.
C24_Witness ==
    /\ served.status = "served"
    /\ served.method = "PATCH"
    /\ served.hmethod = "PATCH"
    /\ regLog[served.hid].method = "*"
    /\ regLog[served.hid].group = 2
    /\ Len(regLog[served.hid].stack) = 1
    /\ served.resp = <<"h", <<served.hid>>>>

\* ------------------------------------------------- the Chi adapter (C25)
\* adaptPath: ":name" becomes "{name}".
adaptPath(path) == ReplaceParams(path, 1)

\* The methods the adapters register routes for.
Verbs == {"GET", "POST", "PUT", "PATCH", "DELETE", "HEAD"}

\* The cases of the switch in ChiAdapter.register.
ChiCases == {"GET", "POST", "PUT", "DELETE", "HEAD"}

\* (a *ChiAdapter) register(method, path, h), on the engine's routes: the
\* switch hands the route to the engine for the methods it has a case for and
\* falls through, doing nothing, for any other.
ChiRegister(routes, method, path, h) ==
    IF method \in ChiCases
    THEN Append(routes, [pattern |-> Key(method, adaptPath(path)), handler |-> h])
    ELSE routes

\* chiadapter on chi.NewRouter().
InitChi ==
    /\ driver = "chi"
    /\ heap = (<<1, 0>> :> <<>>)
    /\ groups = <<[prefix |-> <<>>, middlewares |-> [arr |-> <<1, 0>>, len |-> 0]]>>
    /\ Handlers = <<>>
    /\ mux = <<>>
    /\ groupLog = <<[parent |-> 0, path |-> <<>>, inherited |-> <<>>, uses |-> 0]>>
    /\ regLog = <<>>
    /\ served = NoServe
    /\ fctx = <<>>
    /\ reqs = <<>>
    /\ params = <<>>
    /\ registry = <<>>
    /\ built = NoBuild
    /\ goroutines = <<>>

\* The application asks the Chi adapter for a route of this method: the
\* request ends in ChiAdapter.register.
ChiRoute(method, pattern, maxRoutes) ==
    /\ driver = "chi"
    /\ Len(regLog) < maxRoutes
    /\ LET hid == Len(regLog) + 1
       IN  /\ mux' = ChiRegister(mux, method, pattern, Terminal(hid))
           /\ regLog' = Append(regLog, [group |-> 1, method |-> method,
                                        pattern |-> pattern, hid |-> hid,
                                        path |-> pattern, stack |-> <<>>, n |-> 0,
                                        serving |-> Serving])
    /\ served' = NoServe
    /\ UNCHANGED <<goroutines, factoryVars, driver, heap, groups, Handlers, groupLog,
                   engineVars>>

\* The engine's matching of a "{name}" pattern: as many segments as the path,
\* a "{name}" segment against any non-empty one.
ChiMatches(pattern, path) ==
    LET ps == Segments(pattern)
        qs == Segments(path)
    IN  /\ Len(ps) = Len(qs)
        /\ \A i \in 1..Len(ps) :
               IF Len(ps[i]) >= 1 /\ ps[i][1] = "{" THEN qs[i] # <<>> ELSE ps[i] = qs[i]

\* The engine serves a request: the first route of the method whose pattern
\* matches runs its handler (ChiRoute hands handlers over unwrapped); 405 when only routes of other methods match, 404 when none does.
ChiServeHTTP(method, path) ==
    /\ driver = "chi"
    /\ LET any == {i \in DOMAIN mux : ChiMatches(RoutePattern(mux[i].pattern), path)}
           cand == {i \in any : RouteMethod(mux[i].pattern) = method}
       IN  IF cand = {}
           THEN served' = [method |-> method, path |-> path, deny |-> {},
                           fault |-> {}, hmethod |-> "", key |-> Nil, hid |-> 0,
                           status |-> IF any = {} THEN "404" ELSE "405",
                           trace |-> <<>>,
                           resp |-> <<IF any = {} THEN "404" ELSE "405", <<>>>>,
                           seen |-> Nil]
           ELSE LET i == CHOOSE i \in cand : \A j \in cand : i <= j
                IN  served' = [method |-> method, path |-> path, deny |-> {},
                               fault |-> {}, hmethod |-> method,
                               key |-> mux[i].pattern,
                               hid |-> TerminalOf(mux[i].handler)[1],
                               status |-> "served",
                               trace |-> <<mux[i].handler>>,
                               resp |-> mux[i].handler, seen |-> Nil]
    /\ UNCHANGED <<goroutines, factoryVars, driver, heap, groups, Handlers, mux,
                   groupLog, regLog, engineVars>>

ChiNext ==
    \/ \E method \in Verbs : \E pattern \in {P_b, P_x} :
           ChiRoute(method, pattern, ChiRoutes)
    \/ \E method \in {"GET", "PATCH"} : ChiServeHTTP(method, P_b)

SpecChi == InitChi /\ [][ChiNext]_vars

\* C25: on the Chi adapter, as on any other, every route asked for with one
\* of GET, POST, PUT, PATCH, DELETE and HEAD is handed to the engine, and a
\* request of a registered method and path is dispatched to a handler.
C25_NoRegistrationDropped ==
    driver = "chi" =>
        /\ \A i \in DOMAIN regLog :
               \E j \in DOMAIN mux :
                   /\ mux[j].pattern = Key(regLog[i].method, adaptPath(regLog[i].pattern))
                   /\ TerminalOf(mux[j].handler) = <<i>>
        /\ (served.status # "none" /\ \E i \in DOMAIN regLog :
                /\ regLog[i].method = served.method
                /\ PatternMatches(regLog[i].pattern, served.path))
           => served.status = "served"

\* ------------------------------------------------- Param alone (C26)
\* The parameter values a request can carry.
ParamValues == { <<"a">>, <<"b">> }

\* The names Param is asked for: those routes capture and one none does.
AskedNames == ParamNames \cup { <<"c">> }

\* The maps of captured parameters: some of the names, each with a value.
Captures == UNION {[S -> ParamValues] : S \in SUBSET ParamNames}

\* An adapter of one of the three kinds that read parameters from the request
\* context, and the parameters m the engine captured for a request: held in
\* the engine's context (Gin) and copied into a params map (Fiber).
InitParam ==
    /\ driver \in {"mock", "fiber", "gin"}
    /\ heap = (<<1, 0>> :> <<>>)
    /\ groups = <<[prefix |-> <<>>, middlewares |-> [arr |-> <<1, 0>>, len |-> 0]]>>
    /\ Handlers = <<>>
    /\ mux = <<>>
    /\ groupLog = <<[parent |-> 0, path |-> <<>>, inherited |-> <<>>, uses |-> 0]>>
    /\ regLog = <<>>
    /\ served = NoServe
    /\ reqs = <<>>
    /\ \E m \in Captures :
           /\ fctx = <<[busy |-> TRUE, values |-> m]>>
           /\ params = <<m>>
    /\ registry = <<>>
    /\ built = NoBuild
    /\ goroutines = <<>>

\* The context of a request as the adapter in use hands it to the handler
\* when the router dispatched it with the captured parameters params[1].
DispatchedCtx(order) ==
    CASE driver = "mock" -> (MockParamsKey :> params[1]) @@ EmptyCtx
      [] driver = "fiber" -> FiberInject(EmptyCtx, order, params[1])
      [] driver = "gin" -> (ginParamsKey :> 1) @@ EmptyCtx

\* router.Param(r, key) called on a request: one the router dispatched, or
\* one that never went through it (httptest.NewRequest).
AskParam(dispatched, key) ==
    /\ \E order \in Orders(DOMAIN params[1]) :
           LET ctx == IF dispatched THEN DispatchedCtx(order) ELSE EmptyCtx
           IN  served' = [status |-> "param", dispatched |-> dispatched,
                          name |-> key, value |-> Param(ctx, key)]
    /\ UNCHANGED <<goroutines, factoryVars, driver, heap, groups, Handlers, mux,
                   groupLog, regLog, engineVars>>

ParamNext == \E dispatched \in BOOLEAN : \E key \in AskedNames : AskParam(dispatched, key)

SpecParam == InitParam /\ [][ParamNext]_vars

\* C26: Param returns the empty string when the request carries no captured
\* parameters and when the name is not among those captured; for a captured
\* name it returns the value.
C26_ParamEmptyWhenAbsent ==
    served.status = "param" =>
        served.value = IF served.dispatched /\ served.name \in DOMAIN params[1]
                       THEN params[1][served.name]
                       ELSE <<>>

\* Param asked, on a dispatched request that captured x, for a name that
\* was not captured: the empty string.
C26_Witness ==
    /\ served.status = "param"
    /\ served.dispatched
    /\ DOMAIN params[1] = { <<"x">> }
    /\ served.name = <<"y">>
    /\ served.value = <<>>

\* ------------------------------- parameters after the context is recycled (C27)
\* The string under a name in the closure's map, were it c.Params(name) itself:
\* a view on the buffer of the engine's context, which reads whatever the
\* context holds now.
CopiedValueView(r, name) == EngineParam(reqs[r].c, name)

\* string([]byte(c.Params(name))): the string under a name in the closure's
\* map has bytes of its own, those the context held when the loop ran.
CopiedValue(r, name) == params[ParamsCell(r)][name]

InitRecycle ==
    /\ InitEngine
    /\ driver = "fiber"

\* Work the handler of request r left running reads Param from the request it
\* was given, after the closure has returned and the engine has its context
\* back.
FiberLateParam(r) ==
    /\ driver = "fiber"
    /\ reqs[r].pc = "done"
    /\ reqs[r].late = Nil
    /\ LET names == DOMAIN params[ParamsCell(r)]
       IN  \E order \in Orders(names) :
               LET ctx == FiberInject(EmptyCtx, order,
                                      [name \in names |-> CopiedValue(r, name)])
               IN  reqs' = [reqs EXCEPT ![r].late =
                               [name \in names |-> Param(ctx, name)]]
    /\ UNCHANGED <<goroutines, factoryVars, driver, heap, groups, Handlers, mux,
                   groupLog, regLog, served, fctx, params>>

RecycleNext ==
    \/ \E pattern \in {P_x, P_xy} : Handle("GET", pattern, RecycleRoutes)
    \/ \E r \in DOMAIN reqs : \E path \in {P_a, P_b, P_ab, P_ba} :
           EngineBegin(r, "GET", path)
    \/ \E r \in DOMAIN reqs : FiberCopyParams(r)
    \/ \E r \in DOMAIN reqs : FiberServe(r)
    \/ \E r \in DOMAIN reqs : EngineEnd(r)
    \/ \E r \in DOMAIN reqs : FiberLateParam(r)

SpecRecycle == InitRecycle /\ [][RecycleNext]_vars

\* C27: the parameter values of a Fiber request are copies taken at dispatch:
\* Param on the request, called after the engine has taken its context back
\* and whatever the context holds since, returns the values the request
\* was dispatched with.
C27_ParamsSurviveRecycle ==
    \A r \in DOMAIN reqs :
        reqs[r].late # Nil =>
            \A name \in Range(RouteParams(ReqPattern(r))) :
                reqs[r].late[name] = Bound(ReqPattern(r), reqs[r].path, name)

\* A request for /a through /:x has read x = "a" after its context went back
\* to the engine, which has handed the same context, now holding another
\* value of x, to a later request.
C27_Witness ==
    \E r \in DOMAIN reqs : \E q \in DOMAIN reqs :
        /\ r # q
        /\ reqs[r].late # Nil
        /\ ReqPattern(r) = P_x
        /\ reqs[r].path = P_a
        /\ reqs[r].late[<<"x">>] = <<"a">>
        /\ reqs[q].pc \in {"begun", "copied", "served"}
        /\ reqs[q].c = reqs[r].c
        /\ EngineParam(reqs[r].c, <<"x">>) = <<"b">>

\* ------------------------------------- Use on a parent after Group (C28)
\* Either adapter under groups, Use calls on any router at any moment, and
\* routes registered on any of them.
InheritNext ==
    \/ \E g \in DOMAIN groups : Group(g, P_a, InheritGroups)
    \/ \E g \in DOMAIN groups : Use(g, InheritUses)
    \/ \E g \in DOMAIN groups : Register(g, "GET", P_b, 0, InheritRoutes)

SpecInherit == Init /\ [][InheritNext]_vars

\* The handler the i-th registration call, logged as e, left in the table hs
\* of the Mock or in the mux mx of the NativeAdapter.
RouteChain(hs, mx, i, e) ==
    IF driver = "mock" THEN hs[Key(e.method, e.path)] ELSE mx[i].handler

\* The middlewares given by Use to the parent of router g that are not among
\* those g started with: those added after g was made.
LateParentUses(g) ==
    {UseMw(groupLog[g].parent, k) : k \in 1..groupLog[groupLog[g].parent].uses}
        \ Range(groupLog[g].inherited)

\* C28: a middleware added by Use to a parent after a child group was made from
\* it is not in the child's stack; a route registered on the child afterwards
\* is not wrapped in it, a route registered on the parent afterwards is.
C28_LateParentUseSkipsChild ==
    /\ [](\A g \in DOMAIN groups :
              g > 1 => LateParentUses(g) \cap Range(Stack(g)) = {})
    /\ [][regLog' # regLog =>
            LET i == Len(regLog')
                e == regLog'[i]
                g == e.group
                ran == Range(Layers(RouteChain(Handlers', mux', i, e)))
            IN  /\ \A k \in 1..groupLog[g].uses : UseMw(g, k) \in ran
                /\ g > 1 => LateParentUses(g) \cap ran = {}]_vars

\* A group, a Use on its parent after it was made, then a route on the parent,
\* wrapped in that middleware, and a route on the group, not wrapped in it.
C28_Witness ==
    \E i \in DOMAIN regLog : \E j \in DOMAIN regLog :
        /\ j < i
        /\ regLog[i].group > 1
        /\ regLog[j].group = groupLog[regLog[i].group].parent
        /\ \E m \in LateParentUses(regLog[i].group) :
               /\ m \in Range(Layers(RouteChain(Handlers, mux, j, regLog[j])))
               /\ m \notin Range(Layers(RouteChain(Handlers, mux, i, regLog[i])))
               /\ m \notin Range(Stack(regLog[i].group))

\* ------------------------------- requests replaced by a middleware (C29)
\* A request as the chain hands it on: the values the adapter put in its
\* context, and the middlewares whose modification (a value, a deadline, a
\* cancellation) its context carries.
NewRequest(values) == [values |-> values, added |-> {}]

\* next.ServeHTTP(w, req.WithContext(ctx)) in middleware m, ctx derived from
\* req.Context(): a middleware in marks modifies, any other passes req itself.
Forwarded(marks, m, req) ==
    IF m \in marks THEN [req EXCEPT !.added = @ \cup {m}] ELSE req

\* context.WithValue(req.Context(), key, v) by the adapter.
WithValue(req, key, v) == [req EXCEPT !.values = (key :> v) @@ @]

\* A composed chain run on req: what each middleware and the handler were
\* handed, outermost first, with what Param answers there for names.
RECURSIVE ExecForward(_, _, _, _)
ExecForward(H, marks, req, names) ==
    LET here == [who |-> <<H[1], H[2]>>, added |-> req.added,
                 seen |-> [n \in names |-> Param(req.values, n)]]
    IN  IF H[1] = "h" THEN <<here>>
        ELSE <<here>> \o ExecForward(H[3], marks, Forwarded(marks, H[2], req), names)

\* The private key GinAdapter and EchoAdapter keep the engine context under.
BridgeKey == IF driver = "gin" THEN ginParamsKey ELSE paramsKey

\* finalHandler without the assignment: the engine keeps its own request.
SetRequestSkipped(c, r) == c

\* c.Request = r (Gin) / c.SetRequest(r) (Echo) in finalHandler.
SetRequest(c, r) == [c EXCEPT !.request = r]

\* The functions hs of a route run by the engine on its context c, from the
\* one at c.index on.  Each adds the engine context to the context of the
\* engine's current request and hands that to its middleware or handler; a
\* middleware's finalHandler sets the engine's request and goes on.
RECURSIVE BridgeExec(_, _, _, _)
BridgeExec(hs, marks, c, names) ==
    LET f == hs[c.index]
        req == WithValue(c.request, BridgeKey, c.id)
        here == [who |-> f, added |-> req.added,
                 seen |-> [n \in names |-> Param(req.values, n)]]
        d == [c EXCEPT !.obs = Append(@, here)]
    IN  IF f[1] = "h" THEN d
        ELSE BridgeExec(hs, marks,
                        [SetRequest(d, Forwarded(marks, f[2], req))
                            EXCEPT !.index = @ + 1],
                        names)

InitForward ==
    \/ InitMock
    \/ /\ driver \in {"fiber", "gin", "echo"}
       /\ EngineFresh

\* (m *MockRouter) ServeHTTP for a request the middlewares in marks modify on
\* its way in.
MockForward(path, marks) ==
    /\ driver = "mock"
    /\ \E k \in Candidates(Handlers, "GET", path) :
           LET hid == TerminalOf(Handlers[k])[1]
               names == Range(RouteParams(regLog[hid].path))
           IN  /\ marks \subseteq Range(regLog[hid].stack)
               /\ served' = [status |-> "forward", marks |-> marks, hid |-> hid,
                             pattern |-> regLog[hid].path, path |-> path,
                             obs |-> ExecForward(Stored(Handlers, k), marks,
                                                 NewRequest(ServeCtx(EmptyCtx, k, path)),
                                                 names),
                             request |-> NewRequest(EmptyCtx)]
    /\ UNCHANGED <<goroutines, factoryVars, driver, heap, groups, Handlers, mux,
                   groupLog, regLog, engineVars>>

\* The function the adapter registered for the route of request r runs, the
\* middlewares in marks modifying the request on its way in: on Fiber the
\* composed chain with the parameters in the context, on Gin and Echo the
\* engine's functions on the engine context.
ForwardServe(r, marks) ==
    /\ driver \in {"fiber", "gin", "echo"}
    /\ reqs[r].pc = IF driver = "fiber" THEN "copied" ELSE "begun"
    /\ LET hid == TerminalOf(mux[reqs[r].route].handler)[1]
           names == Range(RouteParams(regLog[hid].path))
       IN  /\ marks \subseteq Range(regLog[hid].stack)
           /\ IF driver = "fiber"
              THEN \E order \in Orders(DOMAIN params[ParamsCell(r)]) :
                       served' =
                           [status |-> "forward", marks |-> marks, hid |-> hid,
                            pattern |-> regLog[hid].path, path |-> reqs[r].path,
                            obs |-> ExecForward(
                                        mux[reqs[r].route].handler, marks,
                                        NewRequest(FiberInject(EmptyCtx, order,
                                                               params[ParamsCell(r)])),
                                        names),
                            request |-> NewRequest(EmptyCtx)]
              ELSE LET c == BridgeExec(GinHandlers(hid), marks,
                                       [id |-> reqs[r].c, index |-> 1,
                                        request |-> NewRequest(EmptyCtx),
                                        obs |-> <<>>],
                                       names)
                   IN  served' =
                           [status |-> "forward", marks |-> marks, hid |-> hid,
                            pattern |-> regLog[hid].path, path |-> reqs[r].path,
                            obs |-> c.obs, request |-> c.request]
    /\ reqs' = [reqs EXCEPT ![r].pc = "served"]
    /\ UNCHANGED <<goroutines, factoryVars, driver, heap, groups, Handlers, mux,
                   groupLog, regLog, fctx, params>>

\* The requests the engine is sent here.
ForwardReqs == DOMAIN reqs \cap (1..ForwardRequests)

ForwardNext ==
    \/ Use(1, ForwardUses)
    \/ driver = "mock" /\ Register(1, "GET", P_x, 0, ForwardRoutes)
    \/ Handle("GET", P_x, ForwardRoutes)
    \/ \E path \in {P_a, P_b} : \E marks \in SUBSET {UseMw(1, k) : k \in 1..ForwardUses} :
           MockForward(path, marks)
    \/ \E r \in ForwardReqs : \E path \in {P_a, P_b} : EngineBegin(r, "GET", path)
    \/ \E r \in ForwardReqs : FiberCopyParams(r)
    \/ \E r \in ForwardReqs : \E marks \in SUBSET {UseMw(1, k) : k \in 1..ForwardUses} :
           ForwardServe(r, marks)
    \/ \E r \in ForwardReqs : EngineEnd(r)

SpecForward == InitForward /\ [][ForwardNext]_vars

\* C29: when middlewares hand a modified request to their continuation, every
\* middleware and the handler inside them receive a request whose context
\* carries the modification; on Gin and Echo the engine's current request
\* becomes the one handed to the continuation, and Param answers on the
\* request received as it does without a modification.
C29_ModifiedRequestReachesHandler ==
    served.status = "forward" =>
        LET O == served.obs
            stack == regLog[served.hid].stack
        IN  /\ Len(O) = Len(stack) + 1
            /\ O[Len(O)].who = <<"h", <<served.hid>>>>
            /\ \A j \in 1..Len(O) :
                   /\ O[j].added = {stack[i] : i \in 1..(j - 1)} \cap served.marks
                   /\ driver # "mock" =>
                          \A n \in DOMAIN O[j].seen :
                              O[j].seen[n] = Bound(served.pattern, served.path, n)
            /\ driver \in {"gin", "echo"} => served.request.added = served.marks

\* A Gin request through two middlewares, the outer of which modified it: the
\* inner one and the handler got the modification, and Param its value.
C29_Witness ==
    /\ driver = "gin"
    /\ served.status = "forward"
    /\ Len(served.obs) = 3
    /\ served.marks = {UseMw(1, 1)}
    /\ served.obs[2].added = {UseMw(1, 1)}
    /\ served.obs[3].added = {UseMw(1, 1)}
    /\ served.obs[3].seen[<<"x">>] = <<"a">>

\* ------------------------------------------- methods kept apart (C30)
\* The table's entries registered under this method that the request's path
\* selects: the entry of that very path, or one whose pattern has a parameter
\* and starts, up to it, as the path does.
Qualifying(method, path) ==
    {k \in DOMAIN Handlers :
        /\ RouteMethod(k) = method
        /\ \/ RoutePattern(k) = path
           \/ /\ IsDynamic(RoutePattern(k))
              /\ HasPrefix(path, SplitFirst(RoutePattern(k), ":"))}

\* C30: MockRouter.ServeHTTP hands a request only to a handler registered
\* under the request's own method, by the exact key or by the fallback; when no
\* entry of that method qualifies the answer is 404 and no handler has run,
\* whatever the table holds under other methods.
C30_MethodsKeptApart ==
    (driver = "mock" /\ served.status # "none") =>
        /\ served.status = "served" =>
               /\ RouteMethod(served.key) = served.method
               /\ served.key \in Qualifying(served.method, served.path)
               /\ regLog[served.hid].method \in {served.method, "*"}
               /\ served.key \in RegKeys(served.hid)
        /\ Qualifying(served.method, served.path) = {} =>
               /\ served.status = "404"
               /\ served.trace = <<>>
               /\ served.hid = 0

\* A POST request for a path that a GET route with a parameter would take:
\* answered 404, no handler run.
C30_Witness ==
    /\ driver = "mock"
    /\ served.method = "POST"
    /\ served.status = "404"
    /\ served.trace = <<>>
    /\ Qualifying("GET", served.path) # {}
    /\ \E k \in Qualifying("GET", served.path) : IsDynamic(RoutePattern(k))
    /\ \A k \in DOMAIN Handlers : RouteMethod(k) = "GET"

====
